---------------------------- MODULE Spec2Model ----------------------------
(***************************************************************************)
(* A model of the landing-page service: ContentGenerator (location         *)
(* normalisation, location-set generation with one top-up, content         *)
(* generation with validation and templated fallback) and the runs that    *)
(* drive it (the Lambda's process_contact_update, the /generate endpoint). *)
(*                                                                         *)
(* A Python str is modelled as a sequence of one-character strings, so     *)
(* that strip, lower, title, split, replace and the regular expressions    *)
(* are computed character by character as the code computes them.          *)
(***************************************************************************)
EXTENDS Integers, Sequences, FiniteSets, TLC

(***************************************************************************)
(* Python str primitives                                                   *)
(***************************************************************************)

UpperLetters ==
    << "A", "B", "C", "D", "E", "F", "G", "H", "I", "J", "K", "L", "M",
       "N", "O", "P", "Q", "R", "S", "T", "U", "V", "W", "X", "Y", "Z" >>

LowerLetters ==
    << "a", "b", "c", "d", "e", "f", "g", "h", "i", "j", "k", "l", "m",
       "n", "o", "p", "q", "r", "s", "t", "u", "v", "w", "x", "y", "z" >>

Digits == { "0", "1", "2", "3", "4", "5", "6", "7", "8", "9" }

LetterIdx == 1..26

UpperSet == { UpperLetters[i] : i \in LetterIdx }

LowerSet == { LowerLetters[i] : i \in LetterIdx }

\* the lower-case letter of an upper-case one, and back
LowerOf == [c \in UpperSet |-> LowerLetters[CHOOSE i \in LetterIdx : UpperLetters[i] = c]]

UpperOf == [c \in LowerSet |-> UpperLetters[CHOOSE i \in LetterIdx : LowerLetters[i] = c]]

IsUpper(c) == c \in UpperSet

\* a lower-case letter that str.upper() and str.title() turn into two letters
Eszett == "ß"

IsLower(c) == c \in LowerSet \/ c = Eszett

IsLetter(c) == IsUpper(c) \/ IsLower(c)

IsDigit(c) == c \in Digits

\* str.isalnum() on one character
IsAlnum(c) == IsLetter(c) \/ IsDigit(c)

\* the characters str.strip(), str.split(None) and the regex class \s treat as white space
IsSpace(c) == c \in { " ", "\n", "\t" }

LowerCh(c) == IF IsUpper(c) THEN LowerOf[c] ELSE c

UpperCh(c) == IF c \in LowerSet THEN UpperOf[c] ELSE c

\* the upper-case and the title-case text of one character
UpperStr(c) == IF c = Eszett THEN << "S", "S" >> ELSE << UpperCh(c) >>

TitleStr(c) == IF c = Eszett THEN << "S", "s" >> ELSE << UpperCh(c) >>

\* the pieces, each of one or two characters, put one after the other
Concat(pieces) ==
    LET n      == Len(pieces)
        End(i) == i + Cardinality({ j \in 1..i : Len(pieces[j]) = 2 })
    IN  [k \in 1..End(n) |->
            LET i == CHOOSE j \in 1..n : End(j - 1) < k /\ k <= End(j)
            IN  pieces[i][k - End(i - 1)]] \o << >>

\* str.lower()
Lower(s) == [i \in 1..Len(s) |-> LowerCh(s[i])] \o << >>

\* str.upper()
Upper(s) ==
    IF \A i \in 1..Len(s) : s[i] # Eszett
    THEN [i \in 1..Len(s) |-> UpperCh(s[i])] \o << >>
    ELSE Concat([i \in 1..Len(s) |-> UpperStr(s[i])])

\* str.title(): a letter that follows a letter is lower-cased, any other letter
\* title-cased
Title(s) ==
    IF \A i \in 1..Len(s) : s[i] # Eszett
    THEN [i \in 1..Len(s) |->
             IF IsLetter(s[i])
             THEN IF i > 1 /\ IsLetter(s[i - 1]) THEN LowerCh(s[i]) ELSE UpperCh(s[i])
             ELSE s[i]] \o << >>
    ELSE Concat([i \in 1..Len(s) |->
                    IF IsLetter(s[i])
                    THEN IF i > 1 /\ IsLetter(s[i - 1]) THEN << LowerCh(s[i]) >>
                         ELSE TitleStr(s[i])
                    ELSE << s[i] >>])

\* str.strip()
Strip(s) ==
    LET keep == { i \in 1..Len(s) : ~IsSpace(s[i]) }
    IN  IF keep = {} THEN << >>
        ELSE LET lo == CHOOSE i \in keep : \A j \in keep : i <= j
                 hi == CHOOSE i \in keep : \A j \in keep : j <= i
             IN  SubSeq(s, lo, hi)

\* `sub in s` at position i
MatchesAt(s, sub, i) ==
    /\ i >= 1
    /\ i + Len(sub) - 1 <= Len(s)
    /\ \A k \in 1..Len(sub) : s[i + k - 1] = sub[k]

\* `sub in s`
Contains(s, sub) == \E i \in 1..(Len(s) + 1) : MatchesAt(s, sub, i)

\* str.startswith / str.endswith
StartsWith(s, sub) == MatchesAt(s, sub, 1)

EndsWith(s, sub) == MatchesAt(s, sub, Len(s) - Len(sub) + 1)

\* str.replace(old, new) for a non-empty old: leftmost, non-overlapping, left to right
RECURSIVE Replace(_, _, _)
Replace(s, old, new) ==
    IF ~Contains(s, old) THEN s
    ELSE LET i == CHOOSE k \in 1..Len(s) :
                     MatchesAt(s, old, k) /\ \A j \in 1..(k - 1) : ~MatchesAt(s, old, j)
         IN  SubSeq(s, 1, i - 1) \o new \o Replace(SubSeq(s, i + Len(old), Len(s)), old, new)

\* the string without the characters of `drop`
FilterChars(s, drop) ==
    LET Kept(c) == c \notin drop
    IN  SelectSeq(s, Kept)

\* sep.join(parts)
RECURSIVE Join(_, _)
Join(parts, sep) ==
    IF parts = << >> THEN << >>
    ELSE IF Len(parts) = 1 THEN parts[1]
         ELSE parts[1] \o sep \o Join(Tail(parts), sep)

\* str.split(ch) on a single character: always at least one part
RECURSIVE SplitOn(_, _)
SplitOn(s, ch) ==
    IF \A i \in 1..Len(s) : s[i] # ch THEN << s >>
    ELSE LET i == CHOOSE k \in 1..Len(s) : s[k] = ch /\ \A j \in 1..(k - 1) : s[j] # ch
         IN  << SubSeq(s, 1, i - 1) >> \o SplitOn(SubSeq(s, i + 1, Len(s)), ch)

\* list slicing lst[:n] for n >= 0
Take(lst, n) == SubSeq(lst, 1, IF n < Len(lst) THEN n ELSE Len(lst))

Min(a, b) == IF a <= b THEN a ELSE b

Range(f) == { f[i] : i \in DOMAIN f }

(***************************************************************************)
(* ContentGenerator._normalize_location                                    *)
(***************************************************************************)

Comma == ","

CommaSpace == << ",", " " >>

\* loc.split(",", 1): the text before and after the first comma
SplitFirstComma(s) ==
    LET i == CHOOSE k \in 1..Len(s) : s[k] = Comma /\ \A j \in 1..(k - 1) : s[j] # Comma
    IN  << SubSeq(s, 1, i - 1), SubSeq(s, i + 1, Len(s)) >>

\* loc.rsplit(None, 1) on a stripped, non-empty string: split at the last white-space run
RSplitLastSpace(s) ==
    IF \A i \in 1..Len(s) : ~IsSpace(s[i]) THEN << s >>
    ELSE LET last == CHOOSE k \in 1..Len(s) :
                        IsSpace(s[k]) /\ \A j \in (k + 1)..Len(s) : ~IsSpace(s[j])
             head == SubSeq(s, 1, last)
             keep == { i \in 1..Len(head) : ~IsSpace(head[i]) }
             hi   == CHOOSE i \in keep : \A j \in keep : j <= i
         IN  << SubSeq(head, 1, hi), SubSeq(s, last + 1, Len(s)) >>

\* city.title(), and the state upper-cased when it has at most two characters
FormatCityState(parts) ==
    LET city  == Title(parts[1])
        state == IF Len(parts[2]) <= 2 THEN Upper(parts[2]) ELSE Title(parts[2])
    IN  city \o CommaSpace \o state

_normalize_location(raw) ==
    LET loc == Strip(raw)
    IN  IF loc = << >> THEN loc
        ELSE IF Contains(loc, << Comma >>)
             THEN LET sp == SplitFirstComma(loc)
                  IN  FormatCityState(<< Strip(sp[1]), Strip(sp[2]) >>)
             ELSE LET tokens == RSplitLastSpace(loc)
                  IN  IF Len(tokens) = 2 THEN FormatCityState(tokens)
                      ELSE Title(loc)


(***************************************************************************)
(* Bounds and input universes                                              *)
(***************************************************************************)

\* longest priority list a caller passes
MaxPrio == 2

\* largest num_locations of a direct call or a /generate request
MaxNum == 2

\* longest list the text generator returns in the first pass
MaxResp == 2

\* longest list the text generator returns in the top-up
MaxTopup == 1

\* the anchor location "A, TX"
BaseCity == << "A", ",", " ", "T", "X" >>

\* raw priority locations: "b, tx", " b tx " (the same place without a comma),
\* "d," (an empty region) and " " (white space only)
PriorityInputs ==
    { << "b", ",", " ", "t", "x" >>,
      << " ", "b", " ", "t", "x", " " >>,
      << "d", "," >>,
      << " " >> }

\* names the text generator may return: "B, TX", " b, tx " (the same name in another
\* case and padding), "D,", the anchor itself and " " (white space only)
CandidateInputs ==
    { << "B", ",", " ", "T", "X" >>,
      << " ", "b", ",", " ", "t", "x", " " >>,
      << "D", "," >>,
      BaseCity,
      << " " >> }

\* all lists over S of length at most n
ListsUpTo(S, n) == UNION { [1..k -> S] : k \in 0..n }

\* the page counts process_contact_update derives from the deal type
PageTiers == { 10, 50, 100 }

(***************************************************************************)
(* The text generator's answers                                            *)
(*                                                                         *)
(* An answer is either a failed call or a text.  A text is described by    *)
(* its code fence ("none", "json" for ```json, "plain" for ```, "other"    *)
(* for a fence with another language tag) and by the JSON document inside  *)
(* it: a list of strings, a document that is no list ("object" in the      *)
(* first pass, "number" in the top-up) or text that is no JSON at all.     *)
(***************************************************************************)

Fences == { "none", "json", "plain", "other" }

ApiError == [kind |-> "error", fence |-> "none", json |-> "invalid", items |-> << >>]

TextAnswer(f, j, l) == [kind |-> "text", fence |-> f, json |-> j, items |-> l]

FirstPassAnswers ==
    { ApiError }
    \cup { TextAnswer(f, j, << >>) : f \in Fences, j \in { "invalid", "object" } }
    \cup { TextAnswer(f, "list", l) : f \in Fences, l \in ListsUpTo(CandidateInputs, MaxResp) }

TopUpAnswers ==
    { ApiError }
    \cup { TextAnswer(f, j, << >>) : f \in { "none", "json" }, j \in { "invalid", "number" } }
    \cup { TextAnswer(f, "list", l) :
              f \in { "none", "json" }, l \in ListsUpTo(CandidateInputs, MaxTopup) }

\* the two re.sub calls that remove an opening ```json or ``` and a closing ```;
\* any other language tag stays in the text
StripFences(ans) ==
    IF ans.fence \in { "json", "plain" } THEN [ans EXCEPT !.fence = "none"]
    ELSE IF ans.fence = "other" THEN [ans EXCEPT !.fence = "none", !.json = "invalid"]
    ELSE ans

\* json.loads: "error" for a JSONDecodeError, else the kind of document
JsonLoads(ans) ==
    IF ans.fence # "none" \/ ans.json = "invalid" THEN "error" ELSE ans.json

(***************************************************************************)
(* ContentGenerator.generate_locations and _generate_additional_locations  *)
(***************************************************************************)

\* NormalizePriorities with the kept names collected in front of the earlier ones, as
\* a rewrite that builds the list by insertion at the head would: the caller's order
\* is lost
RECURSIVE NormalizePrioritiesReversed(_, _, _)
NormalizePrioritiesReversed(rest, seen, acc) ==
    IF rest = << >> THEN acc
    ELSE LET norm == _normalize_location(rest[1])
         IN  IF Lower(norm) \notin seen /\ norm # << >>
             THEN NormalizePrioritiesReversed(Tail(rest), seen \cup { Lower(norm) },
                                              << norm >> \o acc)
             ELSE NormalizePrioritiesReversed(Tail(rest), seen, acc)

\* the loop that normalises the caller's priority list and drops repeats
RECURSIVE NormalizePriorities(_, _, _)
NormalizePriorities(rest, seen, acc) ==
    IF rest = << >> THEN acc
    ELSE LET norm == _normalize_location(rest[1])
         IN  IF Lower(norm) \notin seen /\ norm # << >>
             THEN NormalizePriorities(Tail(rest), seen \cup { Lower(norm) }, Append(acc, norm))
             ELSE NormalizePriorities(Tail(rest), seen, acc)

\* the key a generated name is compared by: loc.strip().lower()
CandidateKey(loc) == Lower(Strip(loc))

\* the loop shared by both passes: keep the stripped name when its key is new
RECURSIVE DedupeLoop(_, _, _)
DedupeLoop(rest, seen, acc) ==
    IF rest = << >> THEN acc
    ELSE IF CandidateKey(rest[1]) \notin seen /\ Strip(rest[1]) # << >>
         THEN DedupeLoop(Tail(rest), seen \cup { CandidateKey(rest[1]) },
                         Append(acc, Strip(rest[1])))
         ELSE DedupeLoop(Tail(rest), seen, acc)

\* first pass: seen starts as {p.lower() for p in priority_locations}
DedupeFirstPass(locs, prio) == DedupeLoop(locs, { Lower(p) : p \in Range(prio) }, << >>)

\* top-up: seen starts as {loc.strip().lower() for loc in existing}
DedupeAdditional(locs, existing) ==
    DedupeLoop(locs, { CandidateKey(e) : e \in Range(existing) }, << >>)

\* RequestCount without the cap of twenty extra: always twice the remaining slots
RequestCountDoubled(remaining) == remaining * 2

\* request_count = min(remaining + 20, remaining * 2)
RequestCount(remaining) == Min(remaining + 20, remaining * 2)

\* how many already chosen names the top-up prompt lists
ExistingShown == 20

\* PrioritiesFill with > for >=: a priority list of exactly num_locations names no
\* longer returns early
PrioritiesFillStrict(prio, num) == Len(prio) > num

\* if len(priority_locations) >= num_locations: return early
PrioritiesFill(prio, num) == Len(prio) >= num

\* FellShort with <= for <: a first pass that exactly fills the request is topped up
FellShortOrEqual(unique, remaining) == Len(unique) <= remaining

\* if len(unique_locations) < remaining: ask for more
FellShort(unique, remaining) == Len(unique) < remaining

\* FirstPassOutcome with an answer that cannot be parsed taken for an empty list, as
\* the top-up does: the call goes on instead of raising
FirstPassOutcomeLenient(ans, prio) ==
    IF ans.kind = "error" THEN [status |-> "raised", unique |-> << >>]
    ELSE LET doc == JsonLoads(StripFences(ans))
         IN  IF doc # "list" THEN [status |-> "ok", unique |-> << >>]
             ELSE [status |-> "ok", unique |-> DedupeFirstPass(ans.items, prio)]

\* what the first pass makes of an answer: a failed call, a JSONDecodeError (re-raised
\* as ValueError) and a document that is no list all leave generate_locations as an
\* exception; a list gives the unique names
FirstPassOutcome(ans, prio) ==
    IF ans.kind = "error" THEN [status |-> "raised", unique |-> << >>]
    ELSE LET doc == JsonLoads(StripFences(ans))
         IN  IF doc = "error" THEN [status |-> "raised", unique |-> << >>]
             ELSE IF doc # "list" THEN [status |-> "raised", unique |-> << >>]
             ELSE [status |-> "ok", unique |-> DedupeFirstPass(ans.items, prio)]

\* AdditionalLocations without the try/except around the call: a failed call leaves
\* _generate_additional_locations as an exception
AdditionalLocationsUnguarded(ans, needed, existing) ==
    IF ans.kind = "error" THEN [status |-> "raised", additional |-> << >>]
    ELSE LET doc == JsonLoads(ans)
         IN  IF doc # "list" THEN [status |-> "returned", additional |-> << >>]
             ELSE [status |-> "returned",
                   additional |-> Take(DedupeAdditional(ans.items, existing), needed)]

\* what _generate_additional_locations does with an answer: its whole body is inside
\* try/except Exception, which returns []; the answer is parsed as it came (no fence
\* is removed here)
AdditionalLocations(ans, needed, existing) ==
    IF ans.kind = "error" THEN [status |-> "returned", additional |-> << >>]
    ELSE LET doc == JsonLoads(ans)
         IN  IF doc # "list" THEN [status |-> "returned", additional |-> << >>]
             ELSE [status |-> "returned",
                   additional |-> Take(DedupeAdditional(ans.items, existing), needed)]

\* what an answer of the first pass is, once its fence is removed
FirstAnswerShape(ans) ==
    IF ans.kind = "error" THEN "failed_call"
    ELSE LET doc == JsonLoads(StripFences(ans))
         IN  IF doc = "error" THEN "unparseable"
             ELSE IF doc # "list" THEN "not_list" ELSE "list"

\* what an answer of the top-up is, as it came
TopUpAnswerShape(ans) ==
    IF ans.kind = "error" THEN "failed_call"
    ELSE LET doc == JsonLoads(ans)
         IN  IF doc = "error" THEN "unparseable"
             ELSE IF doc # "list" THEN "not_iterable" ELSE "list"

\* FinalLocations without the slice [:num_locations]
FinalLocationsUncut(prio, unique, num) == prio \o unique

\* final_locations = (priority_locations + unique_locations)[:num_locations]
FinalLocations(prio, unique, num) == Take(prio \o unique, num)

(***************************************************************************)
(* ContentGenerator: post-processing, validation, fallback, generate_content*)
(***************************************************************************)

\* " Our "
ServiceSentenceA ==
    << " ", "O", "u", "r", " " >>

\* " services are designed to meet your specific needs."
ServiceSentenceB ==
    << " ", "s", "e", "r", "v", "i", "c", "e", "s", " ", "a", "r", "e", " ", "d", "e", "s",
       "i", "g", "n", "e", "d", " ", "t", "o", " ", "m", "e", "e", "t", " ", "y", "o", "u",
       "r", " ", "s", "p", "e", "c", "i", "f", "i", "c", " ", "n", "e", "e", "d", "s", "." >>

\* " Serving the "
LocationSentenceA ==
    << " ", "S", "e", "r", "v", "i", "n", "g", " ", "t", "h", "e", " " >>

\* " area with dedication and expertise."
LocationSentenceB ==
    << " ", "a", "r", "e", "a", " ", "w", "i", "t", "h", " ", "d", "e", "d", "i", "c", "a",
       "t", "i", "o", "n", " ", "a", "n", "d", " ", "e", "x", "p", "e", "r", "t", "i", "s",
       "e", "." >>

\* "Finding reliable "
Template1A ==
    << "F", "i", "n", "d", "i", "n", "g", " ", "r", "e", "l", "i", "a", "b", "l", "e", " " >>

\* " in "
Template1B ==
    << " ", "i", "n", " " >>

\* " requires expertise and local knowledge. Our experienced professionals understand the unique needs of the "
Template1C ==
    << " ", "r", "e", "q", "u", "i", "r", "e", "s", " ", "e", "x", "p", "e", "r", "t", "i",
       "s", "e", " ", "a", "n", "d", " ", "l", "o", "c", "a", "l", " ", "k", "n", "o", "w",
       "l", "e", "d", "g", "e", ".", " ", "O", "u", "r", " ", "e", "x", "p", "e", "r", "i",
       "e", "n", "c", "e", "d", " ", "p", "r", "o", "f", "e", "s", "s", "i", "o", "n", "a",
       "l", "s", " ", "u", "n", "d", "e", "r", "s", "t", "a", "n", "d", " ", "t", "h", "e",
       " ", "u", "n", "i", "q", "u", "e", " ", "n", "e", "e", "d", "s", " ", "o", "f", " ",
       "t", "h", "e", " " >>

\* " area and deliver solutions tailored to your specific requirements. With a commitment to quality and customer satisfaction, we ensure every project meets the highest standards."
Template1D ==
    << " ", "a", "r", "e", "a", " ", "a", "n", "d", " ", "d", "e", "l", "i", "v", "e", "r",
       " ", "s", "o", "l", "u", "t", "i", "o", "n", "s", " ", "t", "a", "i", "l", "o", "r",
       "e", "d", " ", "t", "o", " ", "y", "o", "u", "r", " ", "s", "p", "e", "c", "i", "f",
       "i", "c", " ", "r", "e", "q", "u", "i", "r", "e", "m", "e", "n", "t", "s", ".", " ",
       "W", "i", "t", "h", " ", "a", " ", "c", "o", "m", "m", "i", "t", "m", "e", "n", "t",
       " ", "t", "o", " ", "q", "u", "a", "l", "i", "t", "y", " ", "a", "n", "d", " ", "c",
       "u", "s", "t", "o", "m", "e", "r", " ", "s", "a", "t", "i", "s", "f", "a", "c", "t",
       "i", "o", "n", ",", " ", "w", "e", " ", "e", "n", "s", "u", "r", "e", " ", "e", "v",
       "e", "r", "y", " ", "p", "r", "o", "j", "e", "c", "t", " ", "m", "e", "e", "t", "s",
       " ", "t", "h", "e", " ", "h", "i", "g", "h", "e", "s", "t", " ", "s", "t", "a", "n",
       "d", "a", "r", "d", "s", "." >>

\* "When it comes to "
Template2A ==
    << "W", "h", "e", "n", " ", "i", "t", " ", "c", "o", "m", "e", "s", " ", "t", "o", " " >>

\* " in "
Template2B ==
    << " ", "i", "n", " " >>

\* ", quality and reliability matter most. Our team brings years of experience serving the "
Template2C ==
    << ",", " ", "q", "u", "a", "l", "i", "t", "y", " ", "a", "n", "d", " ", "r", "e", "l",
       "i", "a", "b", "i", "l", "i", "t", "y", " ", "m", "a", "t", "t", "e", "r", " ", "m",
       "o", "s", "t", ".", " ", "O", "u", "r", " ", "t", "e", "a", "m", " ", "b", "r", "i",
       "n", "g", "s", " ", "y", "e", "a", "r", "s", " ", "o", "f", " ", "e", "x", "p", "e",
       "r", "i", "e", "n", "c", "e", " ", "s", "e", "r", "v", "i", "n", "g", " ", "t", "h",
       "e", " " >>

\* " community with professional services that exceed expectations. We combine industry best practices with local insights to deliver results that last."
Template2D ==
    << " ", "c", "o", "m", "m", "u", "n", "i", "t", "y", " ", "w", "i", "t", "h", " ", "p",
       "r", "o", "f", "e", "s", "s", "i", "o", "n", "a", "l", " ", "s", "e", "r", "v", "i",
       "c", "e", "s", " ", "t", "h", "a", "t", " ", "e", "x", "c", "e", "e", "d", " ", "e",
       "x", "p", "e", "c", "t", "a", "t", "i", "o", "n", "s", ".", " ", "W", "e", " ", "c",
       "o", "m", "b", "i", "n", "e", " ", "i", "n", "d", "u", "s", "t", "r", "y", " ", "b",
       "e", "s", "t", " ", "p", "r", "a", "c", "t", "i", "c", "e", "s", " ", "w", "i", "t",
       "h", " ", "l", "o", "c", "a", "l", " ", "i", "n", "s", "i", "g", "h", "t", "s", " ",
       "t", "o", " ", "d", "e", "l", "i", "v", "e", "r", " ", "r", "e", "s", "u", "l", "t",
       "s", " ", "t", "h", "a", "t", " ", "l", "a", "s", "t", "." >>

\* "Professional "
Template3A ==
    << "P", "r", "o", "f", "e", "s", "s", "i", "o", "n", "a", "l", " " >>

\* " services in "
Template3B ==
    << " ", "s", "e", "r", "v", "i", "c", "e", "s", " ", "i", "n", " " >>

\* " designed to meet your needs. We understand that every client has unique requirements, which is why we offer customized solutions backed by expertise and dedication. Our "
Template3C ==
    << " ", "d", "e", "s", "i", "g", "n", "e", "d", " ", "t", "o", " ", "m", "e", "e", "t",
       " ", "y", "o", "u", "r", " ", "n", "e", "e", "d", "s", ".", " ", "W", "e", " ", "u",
       "n", "d", "e", "r", "s", "t", "a", "n", "d", " ", "t", "h", "a", "t", " ", "e", "v",
       "e", "r", "y", " ", "c", "l", "i", "e", "n", "t", " ", "h", "a", "s", " ", "u", "n",
       "i", "q", "u", "e", " ", "r", "e", "q", "u", "i", "r", "e", "m", "e", "n", "t", "s",
       ",", " ", "w", "h", "i", "c", "h", " ", "i", "s", " ", "w", "h", "y", " ", "w", "e",
       " ", "o", "f", "f", "e", "r", " ", "c", "u", "s", "t", "o", "m", "i", "z", "e", "d",
       " ", "s", "o", "l", "u", "t", "i", "o", "n", "s", " ", "b", "a", "c", "k", "e", "d",
       " ", "b", "y", " ", "e", "x", "p", "e", "r", "t", "i", "s", "e", " ", "a", "n", "d",
       " ", "d", "e", "d", "i", "c", "a", "t", "i", "o", "n", ".", " ", "O", "u", "r", " " >>

\* " team is committed to delivering exceptional results on time and within budget."
Template3D ==
    << " ", "t", "e", "a", "m", " ", "i", "s", " ", "c", "o", "m", "m", "i", "t", "t", "e",
       "d", " ", "t", "o", " ", "d", "e", "l", "i", "v", "e", "r", "i", "n", "g", " ", "e",
       "x", "c", "e", "p", "t", "i", "o", "n", "a", "l", " ", "r", "e", "s", "u", "l", "t",
       "s", " ", "o", "n", " ", "t", "i", "m", "e", " ", "a", "n", "d", " ", "w", "i", "t",
       "h", "i", "n", " ", "b", "u", "d", "g", "e", "t", "." >>

\* "Our"
Our ==
    << "O", "u", "r" >>

\* "We "
WeSpace ==
    << "W", "e", " " >>

\* "At "
AtSpace ==
    << "A", "t", " " >>

\* ", we "
CommaWeSpace ==
    << ",", " ", "w", "e", " " >>

\* "'s"
ApostropheS ==
    << "'", "s" >>

\* "["
PatBracketOpen ==
    << "[" >>

\* "]"
PatBracketClose ==
    << "]" >>

\* "insert"
PatInsert ==
    << "i", "n", "s", "e", "r", "t" >>

\* "here"
PatHere ==
    << "h", "e", "r", "e" >>

\* "todo"
PatTodo ==
    << "t", "o", "d", "o" >>

\* "lorem ipsum"
PatLorem ==
    << "l", "o", "r", "e", "m", " ", "i", "p", "s", "u", "m" >>

\* "contact us at "
PatContact ==
    << "c", "o", "n", "t", "a", "c", "t", " ", "u", "s", " ", "a", "t", " " >>

\* "."
Period ==
    << "." >>

\* ". "
PeriodSpace ==
    << ".", " " >>

\* "-"
Hyphen ==
    << "-" >>

\* " "
Space ==
    << " " >>

\* " in "
InWords ==
    << " ", "i", "n", " " >>

\* re.sub(r'[*_#]', '', content)
MarkdownChars == { "*", "_", "#" }

\* re.sub(run+, ' ', s): every maximal run of characters of `set` becomes one space
CollapseRuns(s, set) ==
    LET marked == [i \in 1..Len(s) |->
                      IF s[i] \notin set THEN s[i]
                      ELSE IF i > 1 /\ s[i - 1] \in set THEN "dropped" ELSE " "]
        Kept(c) == c # "dropped"
    IN  SelectSeq(marked, Kept)

WhiteSpace == { " ", "\n", "\t" }

\* the four clean-up lines of _post_process_content
CleanFormatting(content) ==
    Strip(CollapseRuns(CollapseRuns(FilterChars(content, MarkdownChars), { "\n" }),
                       WhiteSpace))

\* the service sentence is appended when the service is not mentioned
EnsureService(content, service) ==
    IF ~Contains(Lower(content), Lower(service))
    THEN content \o ServiceSentenceA \o service \o ServiceSentenceB
    ELSE content

\* the location sentence is appended when the location is not mentioned
EnsureLocation(content, location) ==
    IF ~Contains(Lower(content), Lower(location))
    THEN content \o LocationSentenceA \o location \o LocationSentenceB
    ELSE content

\* more than five parts around "." are cut to the first four, joined by ". ", plus "."
MaxSentenceParts == 5

KeptSentences == 4

TruncateSentences(content) ==
    LET sentences == SplitOn(content, ".")
    IN  IF Len(sentences) > MaxSentenceParts
        THEN Join(SubSeq(sentences, 1, KeptSentences), PeriodSpace) \o Period
        ELSE content

_post_process_content(content, service, location) ==
    TruncateSentences(EnsureLocation(EnsureService(CleanFormatting(content), service),
                                     location))

\* re.search(open + r'.*?' + close): after `open`, the shortest run of characters
\* other than a line break that is followed by `close`
LazyUntil(s, j, close) ==
    \E e \in j..(Len(s) + 1) :
        /\ MatchesAt(s, close, e)
        /\ \A k \in j..(e - 1) : s[k] # "\n"

SearchSpan(s, open, close) ==
    \E i \in 1..Len(s) : MatchesAt(s, open, i) /\ LazyUntil(s, i + Len(open), close)

\* re.search(r'Contact us at \d{3}')
PhoneDigits == 3

SearchPhone(s) ==
    \E i \in 1..Len(s) :
        /\ MatchesAt(s, PatContact, i)
        /\ i + Len(PatContact) + PhoneDigits - 1 <= Len(s)
        /\ \A k \in 0..(PhoneDigits - 1) : IsDigit(s[i + Len(PatContact) + k])

\* the five suspicious patterns, searched with re.IGNORECASE
SuspiciousPattern(content) ==
    LET s == Lower(content)
    IN  \/ SearchSpan(s, PatBracketOpen, PatBracketClose)
        \/ SearchSpan(s, PatInsert, PatHere)
        \/ Contains(s, PatTodo)
        \/ Contains(s, PatLorem)
        \/ SearchPhone(s)

MinContentLen == 50

\* validate_content with <= for <: a text of exactly 50 characters is turned down
validate_content_off_by_one(content) ==
    IF Len(content) <= MinContentLen THEN FALSE
    ELSE IF ~EndsWith(content, Period) THEN FALSE
    ELSE ~SuspiciousPattern(content)

validate_content(content) ==
    IF Len(content) < MinContentLen THEN FALSE
    ELSE IF ~EndsWith(content, Period) THEN FALSE
    ELSE ~SuspiciousPattern(content)

\* the three templates of _generate_fallback_content
FallbackTemplate(idx, service, location) ==
    IF idx = 0
    THEN Template1A \o service \o Template1B \o location \o Template1C \o location
             \o Template1D
    ELSE IF idx = 1
         THEN Template2A \o service \o Template2B \o location \o Template2C \o location
                  \o Template2D
         ELSE Template3A \o service \o Template3B \o location \o Template3C \o location
                  \o Template3D

TemplateCount == 3

\* hash(service + location) % 3: str hashes are salted per process, so the index is
\* any of the three
TemplateIndexes == 0..(TemplateCount - 1)

\* company_name is << >> when the caller passes None or ""
_generate_fallback_content(idx, service, location, company_name) ==
    LET content == FallbackTemplate(idx, service, location)
    IN  IF company_name # << >>
        THEN Replace(Replace(content, Our, company_name \o ApostropheS),
                     WeSpace, AtSpace \o company_name \o CommaWeSpace)
        ELSE content

\* an answer of the content call: a failed call, or a text
ContentError == [kind |-> "error", text |-> << >>]

ContentText(t) == [kind |-> "text", text |-> t]

\* generate_content with the except branch re-raising instead of falling back
generate_content_reraising(ans, idx, service, location, company_name) ==
    IF ans.kind = "error"
    THEN [status |-> "raised", content |-> << >>]
    ELSE LET content == _post_process_content(Strip(ans.text), service, location)
         IN  IF ~validate_content(content)
             THEN [status |-> "returned",
                   content |-> _generate_fallback_content(idx, service, location,
                                                          company_name)]
             ELSE [status |-> "returned", content |-> content]

\* generate_content: the whole body is inside try/except Exception, and both the
\* except branch and the validation failure return the fallback
generate_content(ans, idx, service, location, company_name) ==
    IF ans.kind = "error"
    THEN [status |-> "returned",
          content |-> _generate_fallback_content(idx, service, location, company_name)]
    ELSE LET content == _post_process_content(Strip(ans.text), service, location)
         IN  IF ~validate_content(content)
             THEN [status |-> "returned",
                   content |-> _generate_fallback_content(idx, service, location,
                                                          company_name)]
             ELSE [status |-> "returned", content |-> content]

\* the industry of the run: "hvac"
Industry ==
    << "h", "v", "a", "c" >>

\* a usable text with markdown and line breaks
RawValid ==
    << "W", "e", " ", "f", "i", "x", " ", "*", "a", "n", "y", "*", " ", "u", "n", "i", "t",
       " ", "f", "a", "s", "t", ",", "\n", "\n", "f", "a", "i", "r", " ", "a", "n", "d", " ",
       "r", "i", "g", "h", "t", " ", "t", "h", "e", " ", "f", "i", "r", "s", "t", " ", "t",
       "i", "m", "e", "." >>

\* a text with a bracketed placeholder left in
RawPlaceholder ==
    << "C", "a", "l", "l", " ", "[", "C", "o", "m", "p", "a", "n", "y", " ", "N", "a", "m",
       "e", "]", " ", "t", "o", "d", "a", "y", " ", "f", "o", "r", " ", "g", "r", "e", "a",
       "t", " ", "s", "e", "r", "v", "i", "c", "e", " ", "i", "n", " ", "y", "o", "u", "r",
       " ", "t", "o", "w", "n", "." >>

\* what the content call may answer: a failure, a usable text, a text that fails
\* validation, an empty text
ContentAnswers ==
    { ContentError, ContentText(RawValid), ContentText(RawPlaceholder), ContentText(<< >>) }

(***************************************************************************)
(* Rows, configuration and results of a run                                *)
(***************************************************************************)

\* app.py generate_pages: the slug of a location
Slug(location) ==
    LET dashed   == Replace(Replace(Lower(location), CommaSpace, Hyphen), Space, Hyphen)
        Kept(c)  == IsAlnum(c) \/ c = "-"
        filtered == SelectSeq(dashed, Kept)
        NonEmpty(part) == part # << >>
    IN  Join(SelectSeq(SplitOn(filtered, "-"), NonEmpty), Hyphen)

\* the row generate_pages builds for a location
PageRow(service, location, content) ==
    [page_item_url |-> Slug(location),
     heading       |-> service \o InWords \o location,
     body          |-> content]

\* the attributes Config.__init__ sets
ConfigAttrs ==
    { "HUBSPOT_API_KEY", "DUDA_API_USER", "DUDA_API_PASS", "OPENAI_API_KEY",
      "CONTENT_LENGTH", "CONTENT_TONE", "DEFAULT_NUM_PAGES", "OPENAI_MODEL",
      "LOGS_TABLE_NAME", "NOTIFICATION_EMAIL", "NOTIFICATION_EMAIL_FROM",
      "ENVIRONMENT", "LOG_LEVEL", "API_CALL_DELAY", "MAX_RETRIES", "RETRY_DELAY" }

\* reading config.<name> raises AttributeError when __init__ never set it
HasAttr(name) == name \in ConfigAttrs

\* what a run hands to its caller: a returned response, or an exception leaving it
Response(code, text) == [status |-> "response", code |-> code, text |-> text]

HttpException(code, text) == [status |-> "http_exception", code |-> code, text |-> text]

Unhandled(text) == [status |-> "exception", code |-> 500, text |-> text]

(***************************************************************************)
(* State                                                                   *)
(***************************************************************************)

VARIABLES
    entry,               \* who runs: "lib" (a direct call of generate_locations),
                         \* "generate" (app.py generate_pages), "lambda" (process_contact_update)
    pc,                  \* the position of the run
    base_city,           \* generate_locations' arguments
    num_locations,
    priority_arg,
    priority_locations,  \* generate_locations' locals
    unique_locations,
    first_candidates,    \* the list the first answer holds, when it is a list
    topup_candidates,    \* the list the top-up answer holds, when it is a list
    first_answer,        \* what the first answer was: "none" before the call, then
                         \* "failed_call", "unparseable", "not_list" or "list"
    topup_answer,        \* the same for the top-up ("not_iterable" for a non-list)
    gen_status,          \* generate_locations: "pending", "returned", "raised"
    locations,           \* the list generate_locations returned
    gpt_calls,           \* the text-generation calls issued so far, in order
    duda_calls,          \* the create_dcm_rows and publish_site calls issued so far
    loc_idx,             \* how many locations the row loop has gone through
    rows,                \* the page rows built so far
    content_log,         \* per generate_content call: its answer and what it gave back
    result,              \* what the run handed to its caller ("none" while running)
    vc_text,             \* validate_content called on its own: the argument
    vc_result,           \* ... and the value returned ("none" before the call)
    slug_args,           \* the slug derivations on their own: industry and location
    slug_done,           \* ... the row-building paths that have derived their identifier
    slugs,               \* ... and the identifier each path derived
    batch_size,          \* the batch stage: the rows per create_dcm_rows call
    batch_num,           \* ... the batches the loop has gone through
    created_pages,       \* ... create_pages' list of created pages
    failed_batches,      \* ... create_pages' list of failed batches
    sleeps,              \* ... the time.sleep calls of the batch loop, in order
    trigger,             \* the entry point: "lambda_handler", "webhook", "generate"
                         \* ("none" when the run starts further in)
    event,               \* ... the kind of webhook event it was given
    missing,             \* ... the required credentials the environment does not set
    crm_calls,           \* the HubSpot calls issued so far, in order
    crm_read,            \* ... the deal and the contact they returned
    fn_args,             \* a function called on its own: its arguments
    fn_results,          \* ... and the values its successive applications returned
    requests,            \* the requests one process serves at the same time: what
                         \* each holds of its own (its Config, its ContentGenerator)
    openai_api_key       \* the attribute api_key of the imported module openai

vars ==
    << entry, pc, base_city, num_locations, priority_arg, priority_locations,
       unique_locations, first_candidates, topup_candidates, first_answer,
       topup_answer, gen_status, locations, gpt_calls, duda_calls, loc_idx, rows,
       content_log, result, vc_text, vc_result, slug_args, slug_done, slugs,
       batch_size, batch_num, created_pages, failed_batches, sleeps,
       trigger, event, missing, crm_calls, crm_read, fn_args, fn_results,
       requests, openai_api_key >>

\* the row loop's state
row_vars == << loc_idx, rows, content_log >>

vc_vars == << vc_text, vc_result >>

\* the locals and return value of generate_locations
gl_vars ==
    << priority_locations, unique_locations, first_candidates, topup_candidates,
       first_answer, topup_answer, gen_status, locations >>

args_vars == << entry, base_city, num_locations, priority_arg >>

NoResult == [status |-> "none"]

\* the three row-building paths: create_pages of the Lambda, generate_pages of
\* app.py and create_slug of the one-off script
SlugPaths == { "create_pages", "generate_pages", "create_slug" }

slug_vars == << slug_args, slug_done, slugs >>

batch_vars == << batch_size, batch_num, created_pages, failed_batches, sleeps >>

\* the state that only the specifications of single stages use
\* nothing read from HubSpot yet
NothingRead == [deal |-> << >>, contact |-> << >>]

handler_vars == << trigger, event, missing, crm_calls, crm_read >>

request_vars == << requests, openai_api_key >>

extra_vars == << fn_args, fn_results, request_vars >>

aux_vars == << slug_vars, batch_vars, handler_vars, extra_vars >>

SlugIdle ==
    /\ slug_args = [industry |-> << >>, location |-> << >>]
    /\ slug_done = { }
    /\ slugs = [p \in SlugPaths |-> << >>]

BatchIdle ==
    /\ batch_size = 0
    /\ batch_num = 0
    /\ created_pages = << >>
    /\ failed_batches = << >>
    /\ sleeps = << >>

HandlerIdle ==
    /\ trigger = "none"
    /\ event = "none"
    /\ missing = { }
    /\ crm_calls = << >>
    /\ crm_read = NothingRead

ExtraIdle ==
    /\ fn_args = << >>
    /\ fn_results = << >>
    /\ requests = << >>
    /\ openai_api_key = "unset"

AuxIdle == SlugIdle /\ BatchIdle /\ HandlerIdle /\ ExtraIdle

\* only the direct call passes priority_locations; the endpoints pass none
InitArgs ==
    \/ /\ entry = "lib"
       /\ priority_arg \in ListsUpTo(PriorityInputs, MaxPrio)
       /\ num_locations \in 0..MaxNum
    \/ /\ entry = "generate"
       /\ priority_arg = << >>
       /\ num_locations \in 0..MaxNum
    \/ /\ entry = "lambda"
       /\ priority_arg = << >>
       /\ num_locations \in PageTiers

Init ==
    /\ InitArgs
    /\ base_city = BaseCity
    /\ pc = "gl_start"
    /\ priority_locations = << >>
    /\ unique_locations = << >>
    /\ first_candidates = << >>
    /\ topup_candidates = << >>
    /\ first_answer = "none"
    /\ topup_answer = "none"
    /\ gen_status = "pending"
    /\ locations = << >>
    /\ gpt_calls = << >>
    /\ duda_calls = << >>
    /\ loc_idx = 0
    /\ rows = << >>
    /\ content_log = << >>
    /\ result = NoResult
    /\ vc_text = << >>
    /\ vc_result = "none"
    /\ AuxIdle

(***************************************************************************)
(* generate_locations, step by step                                        *)
(***************************************************************************)

\* the priority list is normalised; when it fills the request the call returns at once
GL_Priorities ==
    /\ pc = "gl_start"
    /\ LET prio == NormalizePriorities(priority_arg, {}, << >>)
       IN  /\ priority_locations' = prio
           /\ IF PrioritiesFill(prio, num_locations)
              THEN /\ locations' = Take(prio, num_locations)
                   /\ gen_status' = "returned"
                   /\ pc' = "gl_done"
              ELSE /\ locations' = locations
                   /\ gen_status' = gen_status
                   /\ pc' = "gl_first"
    /\ UNCHANGED << args_vars, unique_locations, first_candidates, topup_candidates,
                    first_answer, topup_answer, gpt_calls, duda_calls, row_vars, result,
                    vc_vars, aux_vars >>

FirstCall(remaining) ==
    [kind |-> "locations", count |-> RequestCount(remaining),
     about |-> base_city, exclude |-> priority_locations]

TopUpCall(needed, existing) ==
    [kind |-> "topup", count |-> needed,
     about |-> base_city, exclude |-> Take(existing, ExistingShown)]

\* the first text-generation call and what follows it without a further call
GL_FirstPass ==
    /\ pc = "gl_first"
    /\ \E ans \in FirstPassAnswers :
         LET remaining == num_locations - Len(priority_locations)
             out == FirstPassOutcome(ans, priority_locations)
         IN  /\ gpt_calls' = Append(gpt_calls, FirstCall(remaining))
             /\ first_answer' = FirstAnswerShape(ans)
             /\ first_candidates' =
                   IF FirstAnswerShape(ans) = "list" THEN ans.items ELSE << >>
             /\ unique_locations' = out.unique
             /\ IF out.status = "raised"
                THEN /\ gen_status' = "raised"
                     /\ locations' = locations
                     /\ pc' = "gl_done"
                ELSE IF FellShort(out.unique, remaining)
                     THEN /\ gen_status' = gen_status
                          /\ locations' = locations
                          /\ pc' = "gl_topup"
                     ELSE /\ gen_status' = "returned"
                          /\ locations' =
                                FinalLocations(priority_locations, out.unique, num_locations)
                          /\ pc' = "gl_done"
    /\ UNCHANGED << args_vars, priority_locations, topup_candidates, topup_answer,
                    duda_calls, row_vars, result, vc_vars, aux_vars >>

\* the single top-up call, made inside generate_locations' try block: an exception
\* leaving _generate_additional_locations would leave generate_locations too
GL_TopUp ==
    /\ pc = "gl_topup"
    /\ \E ans \in TopUpAnswers :
         LET remaining  == num_locations - Len(priority_locations)
             all_so_far == priority_locations \o unique_locations
             needed     == remaining - Len(unique_locations)
             out        == AdditionalLocations(ans, needed, all_so_far)
             extended   == unique_locations \o out.additional
         IN  /\ gpt_calls' = Append(gpt_calls, TopUpCall(needed, all_so_far))
             /\ topup_answer' = TopUpAnswerShape(ans)
             /\ topup_candidates' =
                   IF TopUpAnswerShape(ans) = "list" THEN ans.items ELSE << >>
             /\ unique_locations' = extended
             /\ IF out.status = "raised"
                THEN /\ gen_status' = "raised"
                     /\ locations' = locations
                ELSE /\ gen_status' = "returned"
                     /\ locations' =
                           FinalLocations(priority_locations, extended, num_locations)
             /\ pc' = "gl_done"
    /\ UNCHANGED << args_vars, priority_locations, first_candidates, first_answer,
                    duda_calls, row_vars, result, vc_vars, aux_vars >>

\* generate_locations' locals end with the call; its answers' outcomes stay on record
ReturnFromLocations ==
    /\ priority_locations' = << >>
    /\ unique_locations' = << >>
    /\ first_candidates' = << >>
    /\ topup_candidates' = << >>
    /\ UNCHANGED << first_answer, topup_answer, gen_status, locations >>

(***************************************************************************)
(* app.py generate_pages, from the call of generate_locations on           *)
(***************************************************************************)

\* a failure of generate_locations becomes HTTPException(500); else the row loop starts
GP_AfterLocations ==
    /\ entry = "generate"
    /\ pc = "gl_done"
    /\ IF gen_status = "raised"
       THEN /\ result' = HttpException(500, "Failed to generate locations")
            /\ pc' = "end"
       ELSE /\ result' = result
            /\ pc' = "gp_rows"
    /\ ReturnFromLocations
    /\ UNCHANGED << args_vars, gpt_calls, duda_calls, row_vars, vc_vars, aux_vars >>

\* the locations the row loop can meet: the names the text generator returns, stripped
RowLocations == { Strip(c) : c \in CandidateInputs } \ { << >> }

\* generate_content as generate_pages calls it (no company name), tabulated once over
\* the answers, the template indexes and the locations of the row loop
GeneratedContent ==
    [ans \in ContentAnswers, idx \in TemplateIndexes, location \in RowLocations |->
        generate_content(ans, idx, Industry, location, << >>)]

ContentCall(location) ==
    [kind |-> "content", count |-> 1, about |-> location, exclude |-> << >>]

\* one turn of the row loop: generate_content, slug, row; an exception skips the row
GP_BuildRow ==
    /\ entry = "generate"
    /\ pc = "gp_rows"
    /\ loc_idx < Len(locations)
    /\ \E ans \in ContentAnswers, idx \in TemplateIndexes :
         LET location == locations[loc_idx + 1]
             got      == GeneratedContent[ans, idx, location]
         IN  /\ gpt_calls' = Append(gpt_calls, ContentCall(location))
             /\ content_log' = Append(content_log,
                                      [answer |-> ans, status |-> got.status,
                                       content |-> got.content])
             /\ rows' = IF got.status = "returned"
                        THEN Append(rows, PageRow(Industry, location, got.content))
                        ELSE rows
             /\ loc_idx' = loc_idx + 1
    /\ UNCHANGED << args_vars, gl_vars, duda_calls, pc, result, vc_vars, aux_vars >>

\* after the loop: batch_size = config.DUDA_BATCH_SIZE
GP_BatchSize ==
    /\ entry = "generate"
    /\ pc = "gp_rows"
    /\ loc_idx = Len(locations)
    /\ IF HasAttr("DUDA_BATCH_SIZE")
       THEN /\ pc' = "gp_batches"
            /\ result' = result
       ELSE /\ pc' = "end"
            /\ result' = Unhandled("AttributeError: DUDA_BATCH_SIZE")
    /\ UNCHANGED << args_vars, gl_vars, gpt_calls, duda_calls, row_vars, vc_vars, aux_vars >>

(***************************************************************************)
(* lambda_function.py process_contact_update, from generate_locations on   *)
(***************************************************************************)

\* a failure of generate_locations, or an empty list, is answered with 400
PCU_AfterLocations ==
    /\ entry = "lambda"
    /\ pc = "gl_done"
    /\ IF gen_status = "raised"
       THEN /\ result' = Response(400, "Failed to generate locations")
            /\ pc' = "end"
       ELSE IF locations = << >>
            THEN /\ result' = Response(400, "No locations available")
                 /\ pc' = "end"
            ELSE /\ result' = result
                 /\ pc' = "cp_start"
    /\ ReturnFromLocations
    /\ UNCHANGED << args_vars, gpt_calls, duda_calls, row_vars, vc_vars, aux_vars >>

\* create_pages begins with batch_size = self.config.DUDA_BATCH_SIZE; the exception
\* leaves create_pages and is answered with 500 by process_contact_update
PCU_CreatePages ==
    /\ entry = "lambda"
    /\ pc = "cp_start"
    /\ IF HasAttr("DUDA_BATCH_SIZE")
       THEN /\ pc' = "cp_rows"
            /\ result' = result
       ELSE /\ pc' = "end"
            /\ result' = Response(500, "AttributeError: DUDA_BATCH_SIZE")
    /\ UNCHANGED << args_vars, gl_vars, gpt_calls, duda_calls, row_vars, vc_vars, aux_vars >>

Next ==
    \/ GL_Priorities
    \/ GL_FirstPass
    \/ GL_TopUp
    \/ GP_AfterLocations
    \/ GP_BuildRow
    \/ GP_BatchSize
    \/ PCU_AfterLocations
    \/ PCU_CreatePages

Spec == Init /\ [][Next]_vars

(***************************************************************************)
(* Properties of generate_locations                                        *)
(***************************************************************************)

\* the canonical form names are compared by: trimmed, case ignored
Canonical(loc) == Lower(Strip(loc))

\* the entries of seq at the positions in keep, in their order
Pick(seq, keep) ==
    [k \in 1..Cardinality(keep) |->
        seq[CHOOSE i \in keep : Cardinality({ j \in keep : j <= i }) = k]]

\* the caller's priority list as the result must show it: every name normalised, the
\* empty ones left out, and of names equal but for case only the first kept
ExpectedPriorities ==
    LET norm     == [i \in 1..Len(priority_arg) |-> _normalize_location(priority_arg[i])]
        nonempty == Pick(norm, { i \in 1..Len(norm) : norm[i] # << >> })
    IN  Pick(nonempty, { i \in 1..Len(nonempty) :
                            \A j \in 1..(i - 1) : Lower(nonempty[j]) # Lower(nonempty[i]) })

\* the text-generation calls of one kind issued so far
CallsOfKind(kind) == { i \in 1..Len(gpt_calls) : gpt_calls[i].kind = kind }

\* C1: whatever the priority list, the first-pass answer and the top-up answer, the
\* list generate_locations returns holds no two entries that are equal after trimming
\* white space and ignoring case.
C1_NoCanonicalDuplicates ==
    gen_status = "returned" =>
        \A i, j \in 1..Len(locations) :
            i # j => Canonical(locations[i]) # Canonical(locations[j])

\* C2: the list generate_locations returns starts with the normalised, deduplicated
\* priority locations in the caller's order, first occurrence kept; none of them is
\* dropped when they number at most num_locations, and when they number more the
\* result is their first num_locations entries.
C2_PrioritiesLead ==
    gen_status = "returned" =>
        IF Len(ExpectedPriorities) <= num_locations
        THEN /\ Len(locations) >= Len(ExpectedPriorities)
             /\ SubSeq(locations, 1, Len(ExpectedPriorities)) = ExpectedPriorities
        ELSE locations = SubSeq(ExpectedPriorities, 1, num_locations)

\* C2's case: two priority names that normalise to one lead a result that the text
\* generator completed
C2_Witness ==
    /\ gen_status = "returned"
    /\ Len(priority_arg) = 2
    /\ Len(ExpectedPriorities) = 1
    /\ Len(locations) = 2
    /\ locations[1] = ExpectedPriorities[1]

\* C3: the anchor base_city is never a member of the list generate_locations returns,
\* whatever the text generator answers, an answer that names the anchor included.
C3_AnchorNeverMember ==
    gen_status = "returned" =>
        \A i \in 1..Len(locations) : locations[i] # base_city

\* the names on offer to one call: the priority list and the non-empty candidates of
\* the first pass, with those of the top-up when the first pass fell short, counted
\* once per canonical form
Supply ==
    LET offered == Range(ExpectedPriorities)
                      \cup { c \in Range(first_candidates) : Strip(c) # << >> }
                      \cup { c \in Range(topup_candidates) : Strip(c) # << >> }
    IN  Cardinality({ Canonical(c) : c \in offered })

\* C4: the list generate_locations returns has at most num_locations entries, and
\* exactly num_locations when the priority list and the distinct non-empty candidates
\* of the first pass (and of the top-up, if one was made) number at least
\* num_locations.
C4_LengthBound ==
    (pc = "gl_done" /\ gen_status = "returned") =>
        /\ Len(locations) <= num_locations
        /\ Supply >= num_locations => Len(locations) = num_locations

\* C4's case: a request for two names filled by the first pass and the top-up together
C4_Witness ==
    /\ pc = "gl_done"
    /\ gen_status = "returned"
    /\ topup_answer = "list"
    /\ num_locations = 2
    /\ Supply >= num_locations
    /\ Len(locations) = num_locations

\* C5: when the normalised, deduplicated priority list has at least num_locations
\* entries, generate_locations returns its first num_locations entries and makes no
\* text-generation call, neither the first pass nor a top-up.
C5_EarlyReturn ==
    Len(ExpectedPriorities) >= num_locations =>
        /\ CallsOfKind("locations") = {}
        /\ CallsOfKind("topup") = {}
        /\ gen_status # "raised"
        /\ pc # "gl_start" =>
              /\ gen_status = "returned"
              /\ locations = SubSeq(ExpectedPriorities, 1, num_locations)

\* C5's case: a priority list of two names answers a request for one
C5_Witness ==
    /\ gen_status = "returned"
    /\ Len(ExpectedPriorities) = 2
    /\ num_locations = 1
    /\ Len(locations) = 1
    /\ gpt_calls = << >>

\* the slots the priority list leaves open
Remaining == num_locations - Len(ExpectedPriorities)

\* the names the first pass yielded, as the code counts them: the canonical forms of
\* its non-empty candidates that are not the lower-cased form of a priority name
FirstPassYield ==
    { Canonical(c) : c \in { d \in Range(first_candidates) : Strip(d) # << >> } }
        \ { Lower(p) : p \in Range(ExpectedPriorities) }

\* C6: one call of generate_locations issues at most two text-generation calls and
\* then ends: at most one first-pass call and at most one top-up, the top-up issued
\* exactly when the first pass yielded fewer unique candidates than the remaining
\* slots, and nothing further asked once the top-up has answered.
C6_AtMostOneTopUp ==
    /\ Cardinality(CallsOfKind("locations")) <= 1
    /\ Cardinality(CallsOfKind("topup")) <= 1
    /\ pc = "gl_done" =>
          (CallsOfKind("topup") # {}
              <=> first_answer = "list" /\ Cardinality(FirstPassYield) < Remaining)
    /\ topup_answer # "none" => pc \notin { "gl_start", "gl_first", "gl_topup" }
    /\ pc = "gl_topup" => CallsOfKind("topup") = {}

\* C6's case: the top-up was made once and the result is still short
C6_Witness ==
    /\ entry = "lib"
    /\ pc = "gl_done"
    /\ Cardinality(CallsOfKind("topup")) = 1
    /\ Len(gpt_calls) = 2
    /\ topup_answer = "list"
    /\ Len(locations) < num_locations

\* the outcomes of a top-up that supply nothing
TopUpFailures == { "failed_call", "unparseable", "not_iterable" }

\* what generate_locations held when it asked for the top-up: the priority names and
\* the first-pass uniques, as listed in the top-up request
HeldBeforeTopUp == gpt_calls[CHOOSE i \in CallsOfKind("topup") : TRUE].exclude

\* C7: once the first pass has succeeded but fallen short, any outcome of the top-up
\* (a failed call, an answer that cannot be parsed, only duplicates, too few new names)
\* makes generate_locations return the priority names followed by the first-pass
\* uniques, followed by whatever new names the top-up supplied; it never raises
\* because of the top-up, and a top-up that supplies nothing leaves the list short.
C7_TopUpNeverRaises ==
    topup_answer # "none" =>
        /\ gen_status = "returned"
        /\ Len(locations) >= Len(HeldBeforeTopUp)
        /\ SubSeq(locations, 1, Len(HeldBeforeTopUp)) = HeldBeforeTopUp
        /\ Len(locations) <= num_locations
        /\ \A i \in (Len(HeldBeforeTopUp) + 1)..Len(locations) :
              /\ pc = "gl_done" => \E c \in Range(topup_candidates) : Strip(c) = locations[i]
              /\ \A j \in 1..(i - 1) : Canonical(locations[j]) # Canonical(locations[i])
        /\ topup_answer \in TopUpFailures =>
              /\ locations = HeldBeforeTopUp
              /\ Len(locations) < num_locations

\* C7's case: the top-up answered with text that is no JSON and the names of the
\* first pass were returned, fewer than requested
C7_Witness ==
    /\ entry = "lib"
    /\ topup_answer = "unparseable"
    /\ gen_status = "returned"
    /\ locations # << >>
    /\ Len(locations) < num_locations

\* the outcomes of the first call that make generate_locations raise
FirstPassFailures == { "failed_call", "unparseable", "not_list" }

\* C8: when the first text-generation call fails, or its answer with the code fence
\* removed is no parseable list, generate_locations raises without a top-up and the run
\* ends there: no content call, no create_dcm_rows call and no publish_site call
\* follows, no row is built, and the caller gets an error response naming the failure.
C8_FirstPassFailureIsFatal ==
    first_answer \in FirstPassFailures =>
        /\ gen_status = "raised"
        /\ topup_answer = "none"
        /\ Len(gpt_calls) = 1
        /\ CallsOfKind("topup") = {}
        /\ CallsOfKind("content") = {}
        /\ duda_calls = << >>
        /\ rows = << >>
        /\ pc \in { "gl_done", "end" }
        /\ (pc = "end" /\ entry = "generate") =>
              result = HttpException(500, "Failed to generate locations")
        /\ (pc = "end" /\ entry = "lambda") =>
              result = Response(400, "Failed to generate locations")

\* C8's case: a /generate request whose first answer was a JSON object ended with the
\* error, after that one call
C8_Witness ==
    /\ entry = "generate"
    /\ pc = "end"
    /\ first_answer = "not_list"
    /\ result = HttpException(500, "Failed to generate locations")
    /\ Len(gpt_calls) = 1

(***************************************************************************)
(* Properties of generate_content and the row loop                         *)
(***************************************************************************)

\* whether the text of an answer, post-processed for a location, fails validate_content
Rejected ==
    [ans \in ContentAnswers \ { ContentError }, location \in RowLocations |->
        ~validate_content(_post_process_content(Strip(ans.text), Industry, location))]

\* the templated bodies of a location
FallbackBodies ==
    [location \in RowLocations |->
        { _generate_fallback_content(idx, Industry, location, << >>) :
            idx \in TemplateIndexes }]

\* C9: generate_content never raises: for a failed call, an empty text, a text failing
\* validation and a valid text alike it returns a body, and the body is a templated
\* fallback whenever the call failed or validate_content rejected the post-processed
\* text; so every location the row loop has gone through has exactly one row.
C9_ContentNeverRaises ==
    /\ Len(content_log) = loc_idx
    /\ Len(rows) = loc_idx
    /\ \A i \in 1..Len(content_log) :
          LET e == content_log[i]
              location == locations[i]
          IN  /\ e.status = "returned"
              /\ (e.answer = ContentError \/ Rejected[e.answer, location])
                    => e.content \in FallbackBodies[location]
              /\ rows[i].body = e.content
              /\ rows[i].heading = Industry \o InWords \o location
    /\ (pc = "end" /\ entry = "generate" /\ gen_status = "returned")
          => Len(rows) = Len(locations)

\* C9's case: a run whose first content call failed and whose second answered with a
\* placeholder left in built both rows
C9_Witness ==
    /\ pc = "end"
    /\ Len(rows) = 2
    /\ content_log[1].answer = ContentError
    /\ content_log[2].answer = ContentText(RawPlaceholder)
    /\ rows[2].body \in FallbackBodies[locations[2]]

(***************************************************************************)
(* validate_content called on its own                                      *)
(***************************************************************************)

\* how many fragments follow the padding of a text handed to validate_content
MaxFrags == 3

\* 48 harmless characters: with a final period the text is one short of 50
Pad48 ==
    << "w", "e", " ", "p", "a", "i", "n", "t", " ", "h", "o", "m", "e", "s", " ", "a", "n",
       "d", " ", "s", "h", "o", "p", "s", " ", "i", "n", " ", "t", "o", "w", "n", " ", "w",
       "i", "t", "h", " ", "g", "r", "e", "a", "t", " ", "c", "a", "r", "e" >>

\* 49 harmless characters: with a final period the text has exactly 50
Pad49 ==
    << "w", "e", " ", "p", "a", "i", "n", "t", " ", "h", "o", "m", "e", "s", " ", "a", "n",
       "d", " ", "s", "h", "o", "p", "s", " ", "i", "n", " ", "t", "o", "w", "n", " ", "w",
       "i", "t", "h", " ", "g", "r", "e", "a", "t", " ", "c", "a", "r", "e", " " >>

FragOpen ==
    << "[" >>

FragClose ==
    << "]" >>

FragNewline ==
    << "\n" >>

FragTodo ==
    << "T", "o", "D", "o" >>

FragLorem ==
    << "L", "o", "r", "e", "m", " ", "i", "p", "s", "u", "m" >>

FragInsert ==
    << "I", "N", "S", "E", "R", "T" >>

FragHere ==
    << "H", "E", "R", "E" >>

FragContact ==
    << "C", "o", "n", "t", "a", "c", "t", " ", "u", "s", " ", "a", "t", " ", "5" >>

FragDigits ==
    << "5", "5" >>

Fragments ==
    { FragOpen, FragClose, FragNewline, FragTodo, FragLorem, FragInsert, FragHere,
      FragContact, FragDigits }

\* the texts validate_content is called on: a padding or none, up to MaxFrags
\* fragments, and a final period or none
RECURSIVE Flatten(_)
Flatten(parts) == IF parts = << >> THEN << >> ELSE parts[1] \o Flatten(Tail(parts))

ValidateInputs ==
    { pad \o Flatten(mid) \o dot :
        pad \in { << >>, Pad48, Pad49 },
        mid \in ListsUpTo(Fragments, MaxFrags),
        dot \in { << >>, Period } }

InitValidate ==
    /\ entry = "validate"
    /\ pc = "vc_start"
    /\ vc_text \in ValidateInputs
    /\ vc_result = "none"
    /\ base_city = << >>
    /\ num_locations = 0
    /\ priority_arg = << >>
    /\ priority_locations = << >>
    /\ unique_locations = << >>
    /\ first_candidates = << >>
    /\ topup_candidates = << >>
    /\ first_answer = "none"
    /\ topup_answer = "none"
    /\ gen_status = "pending"
    /\ locations = << >>
    /\ gpt_calls = << >>
    /\ duda_calls = << >>
    /\ loc_idx = 0
    /\ rows = << >>
    /\ content_log = << >>
    /\ result = NoResult
    /\ AuxIdle

VC_Validate ==
    /\ pc = "vc_start"
    /\ vc_result' = validate_content(vc_text)
    /\ pc' = "vc_done"
    /\ UNCHANGED << args_vars, gl_vars, gpt_calls, duda_calls, row_vars, result, vc_text,
                    aux_vars >>

NextValidate == VC_Validate

SpecValidate == InitValidate /\ [][NextValidate]_vars

(***************************************************************************)
(* Properties of validate_content                                          *)
(***************************************************************************)

\* the positions where a word starts in a text, case ignored
StartsOf(s, word) ==
    LET text == Lower(s)
        w    == Lower(word)
    IN  { i \in 1..Len(s) : MatchesAt(text, w, i) }

\* the text holds `open` and, somewhere after it, `close`
SpanAnywhere(s, open, close) ==
    \E i \in StartsOf(s, open), j \in StartsOf(s, close) : j >= i + Len(open)

\* the same, with no line break from the end of `open` to the start of `close`
SpanOnOneLine(s, open, close) ==
    \E i \in StartsOf(s, open), j \in StartsOf(s, close) :
        /\ j >= i + Len(open)
        /\ \A k \in (i + Len(open))..(j - 1) : s[k] # "\n"

\* "Contact us at " followed by three digits
PlaceholderPhone(s) ==
    \E i \in StartsOf(s, PatContact) :
        /\ i + Len(PatContact) + 2 <= Len(s)
        /\ \A k \in (i + Len(PatContact))..(i + Len(PatContact) + 2) : IsDigit(s[k])

\* a forbidden pattern, a span being any stretch of the text from its opening to its
\* closing
ForbiddenAnywhere(s) ==
    \/ SpanAnywhere(s, FragOpen, FragClose)
    \/ SpanAnywhere(s, FragInsert, FragHere)
    \/ StartsOf(s, FragTodo) # {}
    \/ StartsOf(s, FragLorem) # {}
    \/ PlaceholderPhone(s)

\* a forbidden pattern, a span lying within one line
ForbiddenOnOneLine(s) ==
    \/ SpanOnOneLine(s, FragOpen, FragClose)
    \/ SpanOnOneLine(s, FragInsert, FragHere)
    \/ StartsOf(s, FragTodo) # {}
    \/ StartsOf(s, FragLorem) # {}
    \/ PlaceholderPhone(s)

\* C10 as stated: validate_content rejects a text if and only if it is shorter than 50
\* characters, or does not end in a period, or contains a forbidden pattern (a
\* bracketed span, TODO, Lorem ipsum, INSERT...HERE, a placeholder phone pattern).
C10_RejectsIffAsStated ==
    pc = "vc_done" =>
        (vc_result = FALSE
            <=> \/ Len(vc_text) < 50
                \/ vc_text = << >>
                \/ vc_text[Len(vc_text)] # "."
                \/ ForbiddenAnywhere(vc_text))

\* C10, amended: validate_content rejects a text if and only if it is shorter than 50
\* characters, or does not end in a period, or contains, case ignored, a forbidden
\* pattern: a bracketed span or INSERT...HERE within one line, TODO, Lorem ipsum, or
\* "Contact us at" followed by three digits.
C10_RejectsIff ==
    pc = "vc_done" =>
        (vc_result = FALSE
            <=> \/ Len(vc_text) < 50
                \/ vc_text = << >>
                \/ vc_text[Len(vc_text)] # "."
                \/ ForbiddenOnOneLine(vc_text))

\* C10's case: a text of 50 characters or more, ending in a period, whose brackets
\* are split by a line break, was accepted
C10_Witness ==
    /\ pc = "vc_done"
    /\ vc_result = TRUE
    /\ Len(vc_text) >= 50
    /\ SpanAnywhere(vc_text, FragOpen, FragClose)

(***************************************************************************)
(* The page identifier of a row, derived on its own                        *)
(***************************************************************************)

BestPrefix ==
    << "b", "e", "s", "t", "-" >>

\* create_pages of the Lambda: the location part of the identifier
clean_location(location) ==
    Replace(Replace(Replace(Lower(location), CommaSpace, Hyphen), << Comma >>, << >>),
            Space, Hyphen)

\* create_pages of the Lambda: the identifier of the row
page_url(industry, location) ==
    BestPrefix \o Replace(Lower(industry), Space, Hyphen) \o Hyphen
        \o clean_location(location)

\* create_slug of the one-off script
create_slug(location) ==
    LET slug     == Replace(Replace(Lower(location), CommaSpace, Hyphen), Space, Hyphen)
        Kept(c)  == IsAlnum(c) \/ c = "-"
        filtered == SelectSeq(slug, Kept)
        NonEmpty(part) == part # << >>
    IN  Join(SelectSeq(SplitOn(filtered, "-"), NonEmpty), Hyphen)

\* the longest location the derivations are applied to
MaxSlugLen == 3

SlugChars == { "a", "B", "1", " ", ",", ".", "-" }

SlugLocations == ListsUpTo(SlugChars, MaxSlugLen)

PestControl ==
    << "P", "e", "s", "t", " ", "C", "o", "n", "t", "r", "o", "l" >>

SlugIndustries == { Industry, PestControl }

InitSlug ==
    /\ entry = "slug"
    /\ pc = "slug"
    /\ slug_args \in [industry : SlugIndustries, location : SlugLocations]
    /\ slug_done = { }
    /\ slugs = [p \in SlugPaths |-> << >>]
    /\ base_city = << >>
    /\ num_locations = 0
    /\ priority_arg = << >>
    /\ priority_locations = << >>
    /\ unique_locations = << >>
    /\ first_candidates = << >>
    /\ topup_candidates = << >>
    /\ first_answer = "none"
    /\ topup_answer = "none"
    /\ gen_status = "pending"
    /\ locations = << >>
    /\ gpt_calls = << >>
    /\ duda_calls = << >>
    /\ loc_idx = 0
    /\ rows = << >>
    /\ content_log = << >>
    /\ result = NoResult
    /\ vc_text = << >>
    /\ vc_result = "none"
    /\ BatchIdle
    /\ HandlerIdle
    /\ ExtraIdle

SlugFrame ==
    UNCHANGED << args_vars, pc, gl_vars, gpt_calls, duda_calls, row_vars, result,
                 vc_vars, slug_args, batch_vars, handler_vars, extra_vars >>

\* the Lambda's create_pages derives the identifier of a row
Slug_create_pages ==
    /\ pc = "slug"
    /\ "create_pages" \notin slug_done
    /\ slugs' = [slugs EXCEPT !["create_pages"] =
                    page_url(slug_args.industry, slug_args.location)]
    /\ slug_done' = slug_done \cup { "create_pages" }
    /\ SlugFrame

\* generate_pages of app.py derives the identifier of a row
Slug_generate_pages ==
    /\ pc = "slug"
    /\ "generate_pages" \notin slug_done
    /\ slugs' = [slugs EXCEPT !["generate_pages"] = Slug(slug_args.location)]
    /\ slug_done' = slug_done \cup { "generate_pages" }
    /\ SlugFrame

\* the one-off script derives the identifier of a row
Slug_create_slug ==
    /\ pc = "slug"
    /\ "create_slug" \notin slug_done
    /\ slugs' = [slugs EXCEPT !["create_slug"] = create_slug(slug_args.location)]
    /\ slug_done' = slug_done \cup { "create_slug" }
    /\ SlugFrame

NextSlug ==
    \/ Slug_create_pages
    \/ Slug_generate_pages
    \/ Slug_create_slug

SpecSlug == InitSlug /\ [][NextSlug]_vars

(***************************************************************************)
(* Properties of the page identifier                                       *)
(***************************************************************************)

\* lower-case alphanumerics and hyphens only, no hyphen first or last, no two
\* hyphens in a row
WellFormedSlug(s) ==
    /\ \A i \in 1..Len(s) : (IsLower(s[i]) \/ IsDigit(s[i]) \/ s[i] = "-")
    /\ s # << >> => (s[1] # "-" /\ s[Len(s)] # "-")
    /\ \A i \in 1..(Len(s) - 1) : ~(s[i] = "-" /\ s[i + 1] = "-")

\* C11: on every row-building path the page identifier derived from a location
\* and an industry holds lower-case alphanumerics and hyphens only, neither
\* starts nor ends with a hyphen and has no two hyphens in a row.
C11_SlugWellFormed ==
    \A p \in slug_done : WellFormedSlug(slugs[p])

\* what does hold: the identifiers of generate_pages and of create_slug are well
\* formed, and the two are the same
SlugWellFormedOutsideLambda ==
    \A p \in slug_done \ { "create_pages" } :
        /\ WellFormedSlug(slugs[p])
        /\ slugs[p] = Slug(slug_args.location)

(***************************************************************************)
(* The batch stage: create_dcm_rows in batches, then publish_site          *)
(***************************************************************************)

\* what Duda may answer to a request: a status code, or no answer at all
\* (requests raises a RequestException)
TransportFailure == [kind |-> "transport", code |-> 0]

HttpStatus(code) == [kind |-> "status", code |-> code]

DudaStatuses == { 200, 302, 404, 500, 503 }

DudaReplies == { HttpStatus(code) : code \in DudaStatuses } \cup { TransportFailure }

\* DudaClient.create_dcm_rows: what the call does for an answer, and what it logs
create_dcm_rows(reply) ==
    IF reply.kind = "transport"
    THEN [status |-> "raised", logged |-> "error"]
    ELSE IF 200 <= reply.code /\ reply.code < 300
         THEN [status |-> "returned", logged |-> "info"]
         ELSE IF reply.code >= 400
              THEN IF reply.code >= 500
                   THEN [status |-> "raised", logged |-> "error"]
                   ELSE [status |-> "returned", logged |-> "warning"]
              ELSE [status |-> "returned", logged |-> "info"]

\* DudaClient.publish_site: raise_for_status raises for every 4xx and 5xx
publish_site(reply) ==
    IF reply.kind = "transport" \/ reply.code >= 400
    THEN [status |-> "raised"]
    ELSE [status |-> "returned"]

\* total_batches = (len(rows) + batch_size - 1) // batch_size
TotalBatches(n, size) == (n + size - 1) \div size

\* rows[start:end] of batch number num, counted from 0
BatchRows(all, size, num) ==
    SubSeq(all, num * size + 1, Min(num * size + size, Len(all)))

BestWords ==
    << "B", "e", "s", "t", " " >>

\* the row create_pages builds for a location
LambdaRow(industry, location, content) ==
    [page_item_url |-> page_url(industry, location),
     heading       |-> BestWords \o industry \o InWords \o location,
     body          |-> content]

PreviewLen == 100

\* the entry of created_pages for a row
CreatedPage(row) ==
    [url |-> row.page_item_url, heading |-> row.heading,
     description_preview |-> Take(row.body, PreviewLen)]

\* the entry of failed_batches for a batch
FailedBatch(num, size, all, reply) ==
    [batch_num |-> num + 1,
     start_idx |-> num * size,
     end_idx   |-> Min(num * size + size, Len(all)),
     error     |-> reply,
     rows      |-> [i \in 1..Len(BatchRows(all, size, num)) |->
                       BatchRows(all, size, num)[i].page_item_url]]

DcmCall(batch, reply) == [kind |-> "create_dcm_rows", rows |-> batch, reply |-> reply]

PublishCall(reply) == [kind |-> "publish_site", rows |-> << >>, reply |-> reply]

\* time.sleep(seconds) after `after` Duda calls
Sleep(after, seconds) == [after |-> after, seconds |-> seconds]

\* process_contact_update's answer after create_pages
PagesCreated(n) ==
    [status |-> "response", code |-> 200, text |-> "Pages created successfully",
     pages_created |-> n]

\* generate_pages' answer
GenerateSuccess(n) ==
    [status |-> "response", code |-> 200, text |-> "success", pages_created |-> n]

\* what main() of the one-off script returns
ScriptResult(ok) == [status |-> "script", ok |-> ok]

\* the most rows and the largest batch size of a run
MaxRows == 4

MaxBatch == 2

\* the batch sizes of a run. All three loops read config.DUDA_BATCH_SIZE, which
\* Config.__init__ never sets (see GP_BatchSize and PCU_CreatePages); the sizes are
\* those of the specification's publish(batchSize), a positive number of rows
BatchSizes == 1..MaxBatch

\* the locations of the rows: "B, TX", "C, TX", ...
BatchCity(i) == << UpperLetters[i + 1], ",", " ", "T", "X" >>

BatchLocations(n) == [i \in 1..n |-> BatchCity(i)]

\* the rows a path has built for n locations, with a templated body
BuiltRows(path, n) ==
    [i \in 1..n |->
        IF path = "lambda"
        THEN LambdaRow(Industry, BatchCity(i), FallbackTemplate(0, Industry, BatchCity(i)))
        ELSE PageRow(Industry, BatchCity(i), FallbackTemplate(0, Industry, BatchCity(i)))]

\* a run that has built its rows and is about to send them, its batch size
\* given; create_pages is only called with at least one location
InitBatches ==
    /\ entry \in { "lambda", "generate", "script" }
    /\ pc = "batches"
    /\ num_locations \in 0..MaxRows
    /\ entry = "lambda" => num_locations > 0
    /\ locations = BatchLocations(num_locations)
    /\ rows = BuiltRows(entry, num_locations)
    /\ loc_idx = num_locations
    /\ batch_size \in BatchSizes
    /\ batch_num = 0
    /\ created_pages = << >>
    /\ failed_batches = << >>
    /\ sleeps = << >>
    /\ base_city = BaseCity
    /\ priority_arg = << >>
    /\ priority_locations = << >>
    /\ unique_locations = << >>
    /\ first_candidates = << >>
    /\ topup_candidates = << >>
    /\ first_answer = "none"
    /\ topup_answer = "none"
    /\ gen_status = "returned"
    /\ gpt_calls = << >>
    /\ duda_calls = << >>
    /\ content_log = << >>
    /\ result = NoResult
    /\ vc_text = << >>
    /\ vc_result = "none"
    /\ SlugIdle
    /\ HandlerIdle
    /\ ExtraIdle

BatchFrame ==
    UNCHANGED << args_vars, gl_vars, gpt_calls, row_vars, vc_vars, slug_vars,
                 batch_size, handler_vars, extra_vars >>

\* create_pages, one turn of the batch loop: the call, the bookkeeping, and the
\* delay unless the batch was the last
CP_SendBatch ==
    /\ entry = "lambda"
    /\ pc = "batches"
    /\ batch_num < TotalBatches(Len(rows), batch_size)
    /\ \E reply \in DudaReplies :
         LET batch_rows == BatchRows(rows, batch_size, batch_num)
         IN  /\ duda_calls' = Append(duda_calls, DcmCall(batch_rows, reply))
             /\ IF create_dcm_rows(reply).status = "returned"
                THEN /\ created_pages' = created_pages \o
                            [i \in 1..Len(batch_rows) |-> CreatedPage(batch_rows[i])]
                     /\ failed_batches' = failed_batches
                ELSE /\ created_pages' = created_pages
                     /\ failed_batches' = Append(failed_batches,
                            FailedBatch(batch_num, batch_size, rows, reply))
    /\ sleeps' = IF batch_num < TotalBatches(Len(rows), batch_size) - 1
                 THEN Append(sleeps, Sleep(Len(duda_calls) + 1, "API_CALL_DELAY"))
                 ELSE sleeps
    /\ batch_num' = batch_num + 1
    /\ UNCHANGED << pc, result >>
    /\ BatchFrame

\* create_pages returns created_pages and process_contact_update answers 200
CP_Return ==
    /\ entry = "lambda"
    /\ pc = "batches"
    /\ batch_num = TotalBatches(Len(rows), batch_size)
    /\ result' = PagesCreated(Len(created_pages))
    /\ pc' = "end"
    /\ UNCHANGED << duda_calls, batch_num, created_pages, failed_batches, sleeps >>
    /\ BatchFrame

\* generate_pages, one turn of the batch loop: a failed call ends the request with
\* HTTPException(500); otherwise time.sleep(1)
GP_SendBatch ==
    /\ entry = "generate"
    /\ pc = "batches"
    /\ batch_num < TotalBatches(Len(rows), batch_size)
    /\ \E reply \in DudaReplies :
         /\ duda_calls' = Append(duda_calls,
                                 DcmCall(BatchRows(rows, batch_size, batch_num), reply))
         /\ IF create_dcm_rows(reply).status = "raised"
            THEN /\ result' = HttpException(500, "Duda batch failed")
                 /\ pc' = "end"
                 /\ sleeps' = sleeps
            ELSE /\ result' = result
                 /\ pc' = pc
                 /\ sleeps' = Append(sleeps, Sleep(Len(duda_calls) + 1, "1"))
    /\ batch_num' = batch_num + 1
    /\ UNCHANGED << created_pages, failed_batches >>
    /\ BatchFrame

\* generate_pages after the loop: publish_site, whose failure is only logged, and
\* the success answer
GP_Publish ==
    /\ entry = "generate"
    /\ pc = "batches"
    /\ batch_num = TotalBatches(Len(rows), batch_size)
    /\ \E reply \in DudaReplies :
         duda_calls' = Append(duda_calls, PublishCall(reply))
    /\ result' = GenerateSuccess(Len(rows))
    /\ pc' = "end"
    /\ UNCHANGED << batch_num, created_pages, failed_batches, sleeps >>
    /\ BatchFrame

\* main() of the one-off script, one turn of the batch loop: an exception leaves
\* the loop and main returns False
Main_SendBatch ==
    /\ entry = "script"
    /\ pc = "batches"
    /\ batch_num < TotalBatches(Len(rows), batch_size)
    /\ \E reply \in DudaReplies :
         /\ duda_calls' = Append(duda_calls,
                                 DcmCall(BatchRows(rows, batch_size, batch_num), reply))
         /\ IF create_dcm_rows(reply).status = "raised"
            THEN /\ result' = ScriptResult(FALSE)
                 /\ pc' = "end"
                 /\ sleeps' = sleeps
            ELSE /\ result' = result
                 /\ pc' = pc
                 /\ sleeps' = Append(sleeps, Sleep(Len(duda_calls) + 1, "1"))
    /\ batch_num' = batch_num + 1
    /\ UNCHANGED << created_pages, failed_batches >>
    /\ BatchFrame

\* main() after the loop: publish_site, whose failure is only printed, and True
Main_Publish ==
    /\ entry = "script"
    /\ pc = "batches"
    /\ batch_num = TotalBatches(Len(rows), batch_size)
    /\ \E reply \in DudaReplies :
         duda_calls' = Append(duda_calls, PublishCall(reply))
    /\ result' = ScriptResult(TRUE)
    /\ pc' = "end"
    /\ UNCHANGED << batch_num, created_pages, failed_batches, sleeps >>
    /\ BatchFrame

NextBatches ==
    \/ CP_SendBatch
    \/ CP_Return
    \/ GP_SendBatch
    \/ GP_Publish
    \/ Main_SendBatch
    \/ Main_Publish

SpecBatches == InitBatches /\ [][NextBatches]_vars

(***************************************************************************)
(* Properties of the batch stage                                           *)
(***************************************************************************)

\* the create_dcm_rows calls and the publish_site calls on record
DcmCalls ==
    LET IsDcm(c) == c.kind = "create_dcm_rows"
    IN  SelectSeq(duda_calls, IsDcm)

PublishCalls ==
    LET IsPublish(c) == c.kind = "publish_site"
    IN  SelectSeq(duda_calls, IsPublish)

\* the rows passed to create_dcm_rows so far, in the order of the calls
SentRows == Flatten([i \in 1..Len(DcmCalls) |-> DcmCalls[i].rows])

\* an answer with a status below 500, as against a status of 500 or more or no
\* answer at all
AnsweredBelow500(reply) == reply.kind = "status" /\ reply.code < 500

\* the run got its locations and is over
RunOver(path) == entry = path /\ pc = "end" /\ gen_status = "returned"

BatchesConsecutive ==
    entry \in { "lambda", "generate", "script" } =>
        /\ Len(DcmCalls) = batch_num
        /\ SentRows = SubSeq(rows, 1, Min(batch_num * batch_size, Len(rows)))
        /\ \A i \in 1..Len(DcmCalls) :
              /\ DcmCalls[i].rows # << >>
              /\ Len(DcmCalls[i].rows) <= batch_size
              /\ i < Len(DcmCalls) => Len(DcmCalls[i].rows) = batch_size
        /\ (pc = "end" /\ result.status = "response" /\ result.code = 200) =>
              Len(DcmCalls) = TotalBatches(Len(rows), batch_size)

C14_FailedBatchNotFatal ==
    (pc = "end" /\ entry \in { "generate", "script" } /\ batch_size > 0) =>
        /\ Len(DcmCalls) = TotalBatches(Len(rows), batch_size)
        /\ Len(PublishCalls) = 1

\* the rows of the calls answered with a status below 500
RowsAnsweredBelow500 ==
    LET Below(c) == AnsweredBelow500(c.reply)
        calls    == SelectSeq(DcmCalls, Below)
    IN  Flatten([i \in 1..Len(calls) |-> calls[i].rows])

C16_DelayOnlyBetweenBatches ==
    (pc = "end" /\ entry \in { "lambda", "generate", "script" } /\ DcmCalls # << >>) =>
        /\ Len(sleeps) = Len(DcmCalls) - 1
        /\ \A i \in 1..Len(sleeps) : sleeps[i].after = i

\* C17: every run that reaches the batch stage calls publish_site exactly once,
\* after its last batch, in the Lambda and in generate_pages, also when a batch
\* failed.
C17_PublishedOnce ==
    (pc = "end" /\ entry \in { "lambda", "generate" } /\ batch_size > 0) =>
        /\ Len(PublishCalls) = 1
        /\ duda_calls[Len(duda_calls)].kind = "publish_site"

RequiredCredentials ==
    { "HUBSPOT_API_KEY", "DUDA_API_USER", "DUDA_API_PASS", "OPENAI_API_KEY" }

\* Config.validate(): False when a required credential is not set
validate(unset) == unset \cap RequiredCredentials = { }

WordDominate ==
    << "d", "o", "m", "i", "n", "a", "t", "e" >>

WordBoost ==
    << "b", "o", "o", "s", "t" >>

WordFiftyLocal ==
    << "5", "0", " ", "l", "o", "c", "a", "l", " ", "l", "a", "n", "d", "i", "n", "g", " ",
       "p", "a", "g", "e", "s" >>

WordPowerPages ==
    << "p", "o", "w", "e", "r", " ", "p", "a", "g", "e", "s" >>

WordDiscover ==
    << "d", "i", "s", "c", "o", "v", "e", "r" >>

WordTenLanding ==
    << "1", "0", " ", "l", "a", "n", "d", "i", "n", "g", " ", "p", "a", "g", "e", "s" >>

WordAddOn ==
    << "a", "d", "d", " ", "o", "n", " ", "l", "a", "n", "d", "i", "n", "g", " ", "p", "a",
       "g", "e", "s" >>

DealDominate ==
    << "D", "o", "m", "i", "n", "a", "t", "e" >>

CityA ==
    << "A" >>

StateTX ==
    << "T", "X" >>

ManualLocation ==
    << "B", ",", " ", "T", "X" >>

\* num_pages with 'discover' looked for before 'power pages'
NumPagesDiscoverFirst(deal_type) ==
    LET deal_type_lower == Lower(deal_type)
    IN  IF deal_type = << >> THEN 10
        ELSE IF Contains(deal_type_lower, WordDominate) THEN 100
        ELSE IF Contains(deal_type_lower, WordBoost) THEN 50
        ELSE IF Contains(deal_type_lower, WordFiftyLocal) THEN 50
        ELSE IF Contains(deal_type_lower, WordDiscover) THEN 10
        ELSE IF Contains(deal_type_lower, WordPowerPages) THEN 50
        ELSE 10

\* process_contact_update: the number of pages of a deal type
num_pages(deal_type) ==
    LET deal_type_lower == Lower(deal_type)
    IN  IF deal_type = << >> THEN 10
        ELSE IF Contains(deal_type_lower, WordDominate) THEN 100
        ELSE IF Contains(deal_type_lower, WordBoost) THEN 50
        ELSE IF Contains(deal_type_lower, WordFiftyLocal) THEN 50
        ELSE IF Contains(deal_type_lower, WordPowerPages) THEN 50
        ELSE IF Contains(deal_type_lower, WordDiscover) THEN 10
        ELSE IF Contains(deal_type_lower, WordTenLanding) THEN 10
        ELSE IF Contains(deal_type_lower, WordAddOn) THEN 10
        ELSE 10

\* the deal types of the deals HubSpot holds: none, and the Dominate tier
DealTypes == { << >>, DealDominate }

\* what get_contact_associations and get_deal_associations may do: raise, return
\* an empty list, return a list
AssociationAnswers == { "raised", "empty", "found" }

\* what get_deal may do: raise, or return the deal's properties
DealRaised == [status |-> "raised", website_status |-> "", duda_site_code |-> "", dealtype |-> << >>]

Deal(website_status, duda_site_code, dealtype) ==
    [status |-> "returned", website_status |-> website_status,
     duda_site_code |-> duda_site_code, dealtype |-> dealtype]

DealAnswers ==
    { DealRaised, Deal("Draft", "site1", << >>), Deal("ready for published", "site1", << >>),
      Deal("Ready for Published", "", << >>) }
        \cup { Deal("Ready for Published", "site1", t) : t \in DealTypes }

\* what get_contact may do: raise, or return the contact's properties; `manual`
\* holds the non-empty location_1.. properties in order
ContactRaised ==
    [status |-> "raised", industry_1 |-> << >>, city |-> << >>, state |-> << >>,
     manual |-> << >>]

Contact(industry_1, city, state, manual) ==
    [status |-> "returned", industry_1 |-> industry_1, city |-> city, state |-> state,
     manual |-> manual]

ContactAnswers ==
    { ContactRaised,
      Contact(<< >>, CityA, StateTX, << >>),
      Contact(Industry, CityA, StateTX, << >>),
      Contact(Industry, CityA, << >>, << ManualLocation >>),
      Contact(Industry, << >>, << >>, << >>) }

CrmCall(name, outcome) == [name |-> name, outcome |-> outcome]

\* the except branch of process_contact_update with the exception let through
PcuCaughtReraised(text) == Unhandled(text)

\* the except branch of process_contact_update: statusCode 500 and the error
PcuCaught(text) == Response(500, text)

\* the except branch of lambda_handler: statusCode 500 and the error
HandlerCaught(text) == Response(500, text)

\* the events an entry point is given: for lambda_handler one without objectId, a
\* deal event, a contact event; for /webhook also an empty list and an event that
\* names contact_id and deal_id itself
HandlerEvents == { "no_object", "deal", "contact" }

WebhookEvents == { "empty", "no_object", "direct", "deal", "contact" }

\* a run from its entry point, with all credentials set or with one not set
InitHandler ==
    /\ \/ /\ trigger = "lambda_handler"
          /\ entry = "lambda"
          /\ event \in HandlerEvents
          /\ pc = "lh_start"
          /\ num_locations = 0
       \/ /\ trigger = "webhook"
          /\ entry = "lambda"
          /\ event \in WebhookEvents
          /\ pc = "wh_start"
          /\ num_locations = 0
       \/ /\ trigger = "generate"
          /\ entry = "generate"
          /\ event = "request"
          /\ pc = "gp_validate"
          /\ num_locations \in { 0, 1 }
    /\ missing \in { { } } \cup { { c } : c \in RequiredCredentials }
    /\ crm_calls = << >>
    /\ crm_read = NothingRead
    /\ base_city = IF entry = "generate" THEN BaseCity ELSE << >>
    /\ priority_arg = << >>
    /\ priority_locations = << >>
    /\ unique_locations = << >>
    /\ first_candidates = << >>
    /\ topup_candidates = << >>
    /\ first_answer = "none"
    /\ topup_answer = "none"
    /\ gen_status = "pending"
    /\ locations = << >>
    /\ gpt_calls = << >>
    /\ duda_calls = << >>
    /\ loc_idx = 0
    /\ rows = << >>
    /\ content_log = << >>
    /\ result = NoResult
    /\ vc_text = << >>
    /\ vc_result = "none"
    /\ SlugIdle
    /\ BatchIdle
    /\ ExtraIdle

ReadFrame ==
    UNCHANGED << entry, priority_arg, gl_vars, gpt_calls, duda_calls, row_vars, vc_vars,
                 slug_vars, batch_vars, trigger, event, missing, extra_vars >>

HandlerFrame == ReadFrame /\ UNCHANGED crm_read

\* lambda_handler up to the call of process_contact_update: an event without
\* objectId and a deal without contacts raise ValueError, which like a failure of
\* get_deal_associations is answered with statusCode 500
LH_Event ==
    /\ trigger = "lambda_handler"
    /\ pc = "lh_start"
    /\ \/ /\ event = "no_object"
          /\ result' = HandlerCaught("No objectId found in webhook")
          /\ pc' = "end"
          /\ crm_calls' = crm_calls
       \/ /\ event = "deal"
          /\ \E answer \in AssociationAnswers :
               /\ crm_calls' = Append(crm_calls, CrmCall("get_deal_associations", answer))
               /\ IF answer = "raised"
                  THEN /\ result' = HandlerCaught("RequestException")
                       /\ pc' = "end"
                  ELSE IF answer = "empty"
                       THEN /\ result' = HandlerCaught("No associated contacts found")
                            /\ pc' = "end"
                       ELSE /\ result' = result
                            /\ pc' = "pcu_start"
       \/ /\ event = "contact"
          /\ result' = result
          /\ pc' = "pcu_start"
          /\ crm_calls' = crm_calls
    /\ UNCHANGED << base_city, num_locations >>
    /\ HandlerFrame

\* handle_webhook up to the call of process_contact_update: HTTPException(400) for
\* an empty list, an event naming nothing and a deal without contacts; a failure
\* of get_deal_associations leaves the endpoint
WH_Event ==
    /\ trigger = "webhook"
    /\ pc = "wh_start"
    /\ \/ /\ event = "empty"
          /\ result' = HttpException(400, "Empty event list")
          /\ pc' = "wh_end"
          /\ crm_calls' = crm_calls
       \/ /\ event = "no_object"
          /\ result' = HttpException(400, "No objectId or contact_id provided")
          /\ pc' = "wh_end"
          /\ crm_calls' = crm_calls
       \/ /\ event = "deal"
          /\ \E answer \in AssociationAnswers :
               /\ crm_calls' = Append(crm_calls, CrmCall("get_deal_associations", answer))
               /\ IF answer = "raised"
                  THEN /\ result' = Unhandled("RequestException")
                       /\ pc' = "wh_end"
                  ELSE IF answer = "empty"
                       THEN /\ result' = HttpException(400, "No contacts for deal")
                            /\ pc' = "wh_end"
                       ELSE /\ result' = result
                            /\ pc' = "pcu_start"
       \/ /\ event \in { "direct", "contact" }
          /\ result' = result
          /\ pc' = "pcu_start"
          /\ crm_calls' = crm_calls
    /\ UNCHANGED << base_city, num_locations >>
    /\ HandlerFrame

\* process_contact_update: the deal id is the one passed in, or the first deal
\* get_contact_associations returns; no deal is answered with 400
PCU_Deals ==
    /\ pc = "pcu_start"
    /\ IF event \in { "deal", "direct" }
       THEN /\ crm_calls' = crm_calls
            /\ result' = result
            /\ pc' = "pcu_deal"
       ELSE \E answer \in AssociationAnswers :
               /\ crm_calls' = Append(crm_calls,
                                      CrmCall("get_contact_associations", answer))
               /\ IF answer = "raised"
                  THEN /\ result' = PcuCaught("RequestException")
                       /\ pc' = "end"
                  ELSE IF answer = "empty"
                       THEN /\ result' = Response(400, "No associated deals found")
                            /\ pc' = "end"
                       ELSE /\ result' = result
                            /\ pc' = "pcu_deal"
    /\ UNCHANGED << base_city, num_locations >>
    /\ HandlerFrame

\* ReadyForPublished without the comparison: every deal goes on
StatusUnchecked(website_status) == TRUE

\* website_status != "Ready for Published" skips the deal
ReadyForPublished(website_status) == website_status = "Ready for Published"

\* process_contact_update: get_deal and the gate on website_status and on the site
\* code; the page count only depends on the deal type and is kept from here on
PCU_GetDeal ==
    /\ pc = "pcu_deal"
    /\ \E deal \in DealAnswers :
         /\ crm_calls' = Append(crm_calls, CrmCall("get_deal", deal.status))
         /\ crm_read' = IF deal.status = "raised" THEN crm_read
                        ELSE [crm_read EXCEPT !.deal = << deal >>]
         /\ IF deal.status = "raised"
            THEN /\ result' = PcuCaught("RequestException")
                 /\ pc' = "end"
                 /\ num_locations' = num_locations
            ELSE IF ~ReadyForPublished(deal.website_status)
                 THEN /\ result' = Response(200, "Skipped - status not Ready for Published")
                      /\ pc' = "end"
                      /\ num_locations' = num_locations
                 ELSE IF deal.duda_site_code = ""
                      THEN /\ result' = Response(400, "No Duda site code on deal")
                           /\ pc' = "end"
                           /\ num_locations' = num_locations
                      ELSE /\ result' = result
                           /\ pc' = "pcu_contact"
                           /\ num_locations' = num_pages(deal.dealtype)
    /\ UNCHANGED base_city
    /\ ReadFrame

\* process_contact_update: get_contact, the industry gate, and the choice between
\* generate_locations (city and state known) and the manual location_i properties
PCU_GetContact ==
    /\ pc = "pcu_contact"
    /\ \E contact \in ContactAnswers :
         /\ crm_calls' = Append(crm_calls, CrmCall("get_contact", contact.status))
         /\ crm_read' = IF contact.status = "raised" THEN crm_read
                        ELSE [crm_read EXCEPT !.contact = << contact >>]
         /\ IF contact.status = "raised"
            THEN /\ result' = PcuCaught("RequestException")
                 /\ pc' = "end"
                 /\ UNCHANGED << base_city, locations >>
            ELSE IF contact.industry_1 = << >>
                 THEN /\ result' = Response(400, "Missing industry")
                      /\ pc' = "end"
                      /\ UNCHANGED << base_city, locations >>
                 ELSE IF contact.city # << >> /\ contact.state # << >>
                      THEN /\ base_city' = contact.city \o CommaSpace \o contact.state
                           /\ locations' = locations
                           /\ result' = result
                           /\ pc' = "gl_start"
                      ELSE /\ base_city' = base_city
                           /\ locations' = Take(contact.manual, num_locations)
                           /\ IF contact.manual = << >>
                              THEN /\ result' = Response(400,
                                          "No city/state provided and no manual locations found")
                                   /\ pc' = "end"
                              ELSE /\ result' = result
                                   /\ pc' = "cp_start"
    /\ UNCHANGED << entry, num_locations, priority_arg, priority_locations,
                    unique_locations, first_candidates, topup_candidates, first_answer,
                    topup_answer, gen_status, gpt_calls, duda_calls, row_vars, vc_vars,
                    slug_vars, batch_vars, trigger, event, missing, extra_vars >>

\* handle_webhook returns the body of what process_contact_update returned
WH_Return ==
    /\ trigger = "webhook"
    /\ pc = "end"
    /\ result' = Response(200, result.text)
    /\ pc' = "wh_end"
    /\ UNCHANGED << base_city, num_locations, crm_calls >>
    /\ HandlerFrame

\* generate_pages begins with Config.validate(): a credential that is not set is
\* answered with HTTPException(500) before anything else
GP_Validate ==
    /\ trigger = "generate"
    /\ pc = "gp_validate"
    /\ IF validate(missing)
       THEN /\ result' = result
            /\ pc' = "gl_start"
       ELSE /\ result' = HttpException(500, "Missing required configuration")
            /\ pc' = "end"
    /\ UNCHANGED << base_city, num_locations, crm_calls >>
    /\ HandlerFrame

NextHandler ==
    \/ LH_Event
    \/ WH_Event
    \/ PCU_Deals
    \/ PCU_GetDeal
    \/ PCU_GetContact
    \/ WH_Return
    \/ GP_Validate
    \/ Next

SpecHandler == InitHandler /\ [][NextHandler]_vars

(***************************************************************************)
(* Properties of the entry points                                          *)
(***************************************************************************)

\* the run was refused: an error answer, and no call to HubSpot, to the text
\* generator or to Duda on record
RefusedBeforeAnyCall ==
    /\ crm_calls = << >>
    /\ gpt_calls = << >>
    /\ duda_calls = << >>
    /\ pc \in { "end", "wh_end" } =>
          /\ result.status \in { "response", "http_exception" }
          /\ result.code >= 400

\* C19: when a required credential is not set, lambda_handler, /webhook and
\* /generate end with an error answer before any HubSpot, text-generation or Duda
\* call is made.
C19_MissingCredentialAborts ==
    (trigger # "none" /\ missing # { }) => RefusedBeforeAnyCall

\* what does hold: /generate refuses a run with a credential not set
GenerateRefusesMissingCredential ==
    (trigger = "generate" /\ missing # { }) => RefusedBeforeAnyCall

\* C20: lambda_handler and process_contact_update never let an exception out:
\* whatever HubSpot, the text generator and Duda do, the run goes on until it
\* answers, and the answer carries statusCode 200, 400 or 500 and a message or an
\* error text.
C20_HandlerAlwaysAnswers ==
    /\ trigger = "lambda_handler" => result.status \in { "none", "response" }
    /\ (entry = "lambda" /\ trigger # "none" /\ pc = "end") =>
          /\ result.status = "response"
          /\ result.code \in { 200, 400, 500 }
          /\ result.text # ""
    /\ (entry = "lambda" /\ trigger # "none" /\ pc \notin { "end", "wh_end" }) =>
          /\ result = NoResult
          /\ ENABLED NextHandler

\* a lambda_handler run in which get_deal raised and which answered 500
C20_Witness ==
    /\ trigger = "lambda_handler"
    /\ pc = "end"
    /\ crm_calls # << >>
    /\ crm_calls[Len(crm_calls)] = CrmCall("get_deal", "raised")
    /\ result.status = "response"
    /\ result.code = 500

\* ---------------------------------------------------------------------------
\* What a finished run hands back to its caller
\* ---------------------------------------------------------------------------

\* the names under which a returned result carries something
ReportFields == DOMAIN result

\* C21: a run that went through its batch loop returns a report that carries
\* the number of rows attempted next to the number of rows created, and the
\* batches that failed, so that a failed batch shows in the returned result.
\* process_contact_update returns message, pages_created and contact_id only,
\* generate_pages returns pages_created = len(rows) or raises at the first
\* failed batch.
C21_ReportShowsPartialSuccess ==
    (pc = "end" /\ entry \in { "lambda", "generate" } /\ batch_size > 0) =>
        /\ result.status = "response"
        /\ result.code = 200
        /\ "pages_created" \in ReportFields
        /\ "rows_attempted" \in ReportFields
        /\ failed_batches # << >> => "failed_batches" \in ReportFields

\* what the Lambda does return: the number of created pages alone, the same
\* answer whether or not a batch failed
LambdaReportsCreatedOnly ==
    (pc = "end" /\ entry = "lambda" /\ batch_size > 0) =>
        result = PagesCreated(Len(created_pages))

(***************************************************************************)
(* Functions called on their own                                           *)
(***************************************************************************)

\* the state of a run that has not started and holds no validate_content call
RunIdle ==
    /\ base_city = << >>
    /\ num_locations = 0
    /\ priority_arg = << >>
    /\ priority_locations = << >>
    /\ unique_locations = << >>
    /\ first_candidates = << >>
    /\ topup_candidates = << >>
    /\ first_answer = "none"
    /\ topup_answer = "none"
    /\ gen_status = "pending"
    /\ locations = << >>
    /\ gpt_calls = << >>
    /\ duda_calls = << >>
    /\ loc_idx = 0
    /\ rows = << >>
    /\ content_log = << >>
    /\ result = NoResult
    /\ vc_text = << >>
    /\ vc_result = "none"
    /\ SlugIdle
    /\ BatchIdle
    /\ HandlerIdle

\* a function called on its own changes nothing of a run
FnFrame ==
    UNCHANGED << args_vars, gl_vars, gpt_calls, duda_calls, row_vars, result, vc_vars,
                 slug_vars, batch_vars, handler_vars, request_vars >>

\* every string of 1..n characters of the set chars
StringsUpTo(chars, n) == UNION { [1..k -> chars] : k \in 1..n }

\* _normalize_location called on its own: the longest argument and its characters
MaxNormLen == 4

NormChars == { "a", "B", Eszett, Comma, " " }

\* the non-empty arguments that hold a comma
NormalizeInputs ==
    { x \in StringsUpTo(NormChars, MaxNormLen) : \E i \in 1..Len(x) : x[i] = Comma }

InitNormalize ==
    /\ entry = "normalize"
    /\ pc = "norm_start"
    /\ fn_args \in NormalizeInputs
    /\ fn_results = << >>
    /\ requests = << >>
    /\ openai_api_key = "unset"
    /\ RunIdle

\* normalize(x)
Norm_Once ==
    /\ pc = "norm_start"
    /\ fn_results' = << _normalize_location(fn_args) >>
    /\ pc' = "norm_once"
    /\ UNCHANGED fn_args
    /\ FnFrame

\* normalize(normalize(x))
Norm_Twice ==
    /\ pc = "norm_once"
    /\ fn_results' = Append(fn_results, _normalize_location(fn_results[1]))
    /\ pc' = "norm_twice"
    /\ UNCHANGED fn_args
    /\ FnFrame

NextNormalize == Norm_Once \/ Norm_Twice

SpecNormalize == InitNormalize /\ [][NextNormalize]_vars

\* C22: _normalize_location is idempotent on every non-empty argument that holds
\* a comma: normalising the result again gives the same result, also for an empty
\* name or region segment, for several commas and for a region of one or two
\* characters.
C22_NormalizeIdempotent ==
    (entry = "normalize" /\ pc = "norm_twice") => fn_results[2] = fn_results[1]

\* what does hold: the second application changes nothing unless the region has
\* at most two characters of which one is a letter whose upper case is longer
IdempotentOnSingleCaseLetters ==
    (entry = "normalize" /\ pc = "norm_twice"
        /\ \A i \in 1..Len(fn_args) : fn_args[i] # Eszett) =>
        fn_results[2] = fn_results[1]

(***************************************************************************)
(* Two requests served by one process at the same time (app.py's endpoints *)
(* are plain functions, which the server runs on worker threads)           *)
(***************************************************************************)

\* the text-generation calls one request makes at most
MaxCalls == 2

RequestIds == { 1, 2 }

\* the values OPENAI_API_KEY of the environment has when a request reads it
ApiKeys == { "key-a", "key-b" }

\* ContentGenerator's default model and a configured OPENAI_MODEL
DefaultModel == "gpt-3.5-turbo"

Models == { DefaultModel, "gpt-4" }

\* Config(): a request's own reading of the environment
NewRequest(api_key, model) ==
    [pc |-> "start", OPENAI_API_KEY |-> api_key, OPENAI_MODEL |-> model,
     self_api_key |-> "unset", self_model |-> "unset", calls |-> 0]

\* a ChatCompletion.create call as the library sends it: with the module's
\* api_key and the model argument
CompletionCall(r, api_key, model) == [request |-> r, api_key |-> api_key, model |-> model]

InitRequests ==
    /\ entry = "requests"
    /\ pc = "requests"
    /\ requests \in [RequestIds -> { NewRequest(k, mo) : k \in ApiKeys, mo \in Models }]
    /\ openai_api_key = "unset"
    /\ fn_args = << >>
    /\ fn_results = << >>
    /\ RunIdle

RequestFrame ==
    UNCHANGED << args_vars, pc, gl_vars, duda_calls, row_vars, result, vc_vars,
                 slug_vars, batch_vars, handler_vars, fn_args, fn_results >>

\* ContentGenerator.__init__: self.api_key, self.model, and the assignment to
\* the module attribute openai.api_key
Req_Construct(r) ==
    /\ requests[r].pc = "start"
    /\ requests' = [requests EXCEPT ![r].pc = "built",
                                    ![r].self_api_key = requests[r].OPENAI_API_KEY,
                                    ![r].self_model = requests[r].OPENAI_MODEL]
    /\ openai_api_key' = requests[r].OPENAI_API_KEY
    /\ UNCHANGED gpt_calls
    /\ RequestFrame

\* openai.ChatCompletion.create(model=self.model, ...): the key is the module's
Req_Call(r) ==
    /\ requests[r].pc = "built"
    /\ requests[r].calls < MaxCalls
    /\ gpt_calls' = Append(gpt_calls,
                           CompletionCall(r, openai_api_key, requests[r].self_model))
    /\ requests' = [requests EXCEPT ![r].calls = @ + 1]
    /\ UNCHANGED openai_api_key
    /\ RequestFrame

\* the request returns
Req_Return(r) ==
    /\ requests[r].pc = "built"
    /\ requests' = [requests EXCEPT ![r].pc = "done"]
    /\ UNCHANGED << gpt_calls, openai_api_key >>
    /\ RequestFrame

NextRequests == \E r \in RequestIds : Req_Construct(r) \/ Req_Call(r) \/ Req_Return(r)

SpecRequests == InitRequests /\ [][NextRequests]_vars

\* C23: two requests that overlap share no state: nothing one of them writes,
\* the construction of its ContentGenerator included, is seen by the other. Each
\* text-generation call of a request is made with the key and the model that
\* request gave its own ContentGenerator.
C23_NoSharedState ==
    entry = "requests" =>
        \A i \in 1..Len(gpt_calls) :
            LET call == gpt_calls[i]
            IN  /\ call.api_key = requests[call.request].self_api_key
                /\ call.model = requests[call.request].self_model

\* what is a request's own: the model of its ContentGenerator
ModelIsPerRequest ==
    entry = "requests" =>
        \A i \in 1..Len(gpt_calls) :
            gpt_calls[i].model = requests[gpt_calls[i].request].OPENAI_MODEL

\* ---------------------------------------------------------------------------
\* The two deduplication loops of generate_locations, called on their own
\* ---------------------------------------------------------------------------

\* the longest candidate list of an answer
MaxCand == 2

\* candidates: two spellings of one place, another place, white space
DedupeCandidates ==
    { << "b", " ", "t", "x" >>, << "B", ",", " ", "T", "X" >>,
      << "c", ",", " ", "t", "x" >>, << " " >> }

\* the priority locations as generate_locations holds them: normalised
DedupePriorities == { << >>, << _normalize_location(<< "b", ",", "t", "x" >>) >> }

InitDedupe ==
    /\ entry = "dedupe"
    /\ pc = "dd_start"
    /\ fn_args \in [priority_locations : DedupePriorities,
                    first : ListsUpTo(DedupeCandidates, MaxCand),
                    topup : ListsUpTo(DedupeCandidates, MaxCand)]
    /\ fn_results = << >>
    /\ requests = << >>
    /\ openai_api_key = "unset"
    /\ RunIdle

\* the loop over the first answer
Dedupe_First ==
    /\ pc = "dd_start"
    /\ fn_results' = << DedupeFirstPass(fn_args.first, fn_args.priority_locations) >>
    /\ pc' = "dd_first"
    /\ UNCHANGED fn_args
    /\ FnFrame

\* the loop over the top-up answer, existing = priority_locations + unique_locations
Dedupe_TopUp ==
    /\ pc = "dd_first"
    /\ fn_results' = Append(fn_results,
                            DedupeAdditional(fn_args.topup,
                                             fn_args.priority_locations \o fn_results[1]))
    /\ pc' = "dd_topup"
    /\ UNCHANGED fn_args
    /\ FnFrame

NextDedupe == Dedupe_First \/ Dedupe_TopUp

SpecDedupe == InitDedupe /\ [][NextDedupe]_vars

\* the form under which the normaliser makes two names the same location
NormalForm(loc) == Lower(_normalize_location(loc))

\* the priority locations followed by what the two loops kept
DedupedList == fn_args.priority_locations \o fn_results[1] \o fn_results[2]

\* C24: the candidates are deduplicated against the priority locations and
\* against each other under the normaliser's canonical form: the list holds no
\* two entries that normalise to the same name and no empty entry.
C24_DedupedByCanonicalForm ==
    (entry = "dedupe" /\ pc = "dd_topup") =>
        /\ \A i, j \in 1..Len(DedupedList) :
              i # j => NormalForm(DedupedList[i]) # NormalForm(DedupedList[j])
        /\ \A i \in 1..Len(DedupedList) : Strip(DedupedList[i]) # << >>

\* what does hold: the loops compare loc.strip().lower(), so no two kept
\* candidates are equal after trimming and lower-casing, none is empty, and
\* none equals a priority location written the same way
DedupedByStrippedLowerCase ==
    (entry = "dedupe" /\ pc = "dd_topup") =>
        LET kept == fn_results[1] \o fn_results[2]
        IN  /\ \A i, j \in 1..Len(kept) : i # j => Canonical(kept[i]) # Canonical(kept[j])
            /\ \A i \in 1..Len(kept) :
                  /\ kept[i] # << >>
                  /\ \A p \in Range(fn_args.priority_locations) :
                        Canonical(kept[i]) # Canonical(p)

\* ---------------------------------------------------------------------------
\* _post_process_content called on its own
\* ---------------------------------------------------------------------------

\* the most sentences of a generated text
MaxSentences == 5

\* a sentence without the service and the location, one that names the service
\* and one that names the location, neither in the case of the argument
PlainSentence == << "W", "e", " ", "c", "a", "r", "e", "." >>

ServiceSentence == << "H", "V", "A", "C", " ", "p", "r", "o", "s", "." >>

LocationSentence == << "I", "n", " ", "b", ",", " ", "t", "x", "." >>

PostProcessLocation == << "B", ",", " ", "T", "X" >>

\* the generated texts: up to MaxSentences sentences with a blank between
GeneratedTexts ==
    { Join(ss, << " " >>) :
        ss \in ListsUpTo({ PlainSentence, ServiceSentence, LocationSentence },
                         MaxSentences) \ { << >> } }

InitPostProcess ==
    /\ entry = "post_process"
    /\ pc = "pp_start"
    /\ fn_args \in [content : GeneratedTexts, service : { Industry },
                    location : { PostProcessLocation }]
    /\ fn_results = << >>
    /\ requests = << >>
    /\ openai_api_key = "unset"
    /\ RunIdle

PP_PostProcess ==
    /\ pc = "pp_start"
    /\ fn_results' = << _post_process_content(fn_args.content, fn_args.service,
                                              fn_args.location) >>
    /\ pc' = "pp_done"
    /\ UNCHANGED fn_args
    /\ FnFrame

NextPostProcess == PP_PostProcess

SpecPostProcess == InitPostProcess /\ [][NextPostProcess]_vars

\* `term` occurs in text, in whatever case
Mentions(text, term) == Contains(Lower(text), Lower(term))

\* the number of "." in a text
Periods(text) == Cardinality({ i \in 1..Len(text) : text[i] = "." })

\* C25: whatever the generated text and however many sentences it has, the text
\* _post_process_content returns mentions the service and the location, in
\* whatever case; cutting the text to four sentences does not remove the mention.
C25_MentionsServiceAndLocation ==
    (entry = "post_process" /\ pc = "pp_done") =>
        /\ Mentions(fn_results[1], fn_args.service)
        /\ Mentions(fn_results[1], fn_args.location)

\* what does hold: the sentences are appended before the cut, so both terms are
\* mentioned whenever the text with its appended sentences has at most four "."
MentionedWhenNotCut ==
    (entry = "post_process" /\ pc = "pp_done") =>
        LET appended == (IF Mentions(fn_args.content, fn_args.service) THEN 0 ELSE 1)
                        + (IF Mentions(fn_args.content, fn_args.location) THEN 0 ELSE 1)
        IN  Periods(fn_args.content) + appended < MaxSentenceParts =>
                /\ Mentions(fn_results[1], fn_args.service)
                /\ Mentions(fn_results[1], fn_args.location)

\* ---------------------------------------------------------------------------
\* The size of the first-pass request
\* ---------------------------------------------------------------------------

\* the first-pass calls on record
FirstPassCalls == CallsOfKind("locations")

\* C26: with remaining = num_locations - len(priority_locations) >= 1, the first
\* pass asks for min(remaining + 20, remaining * 2) candidates: twice the
\* remaining slots up to twenty slots, twenty more beyond; never fewer than
\* remain and never more than twice as many.
C26_FirstPassRequestCount ==
    \A i \in FirstPassCalls :
        LET remaining == num_locations - Len(priority_locations)
            asked     == gpt_calls[i].count
        IN  /\ remaining >= 1
            /\ asked = (IF remaining <= 20 THEN remaining * 2 ELSE remaining + 20)
            /\ remaining <= asked
            /\ asked <= 2 * remaining

\* a first pass for fifty slots has asked for seventy candidates
C26_Witness ==
    /\ num_locations - Len(priority_locations) = 50
    /\ \E i \in FirstPassCalls : gpt_calls[i].count = 70

\* ---------------------------------------------------------------------------
\* The bookkeeping of create_pages
\* ---------------------------------------------------------------------------

\* the identifiers of the rows entered in failed_batches
FailedRows == Flatten([i \in 1..Len(failed_batches) |-> failed_batches[i].rows])

\* the identifiers of the rows entered in created_pages
CreatedRows == [i \in 1..Len(created_pages) |-> created_pages[i].url]

\* how often an identifier stands in a list
Occurrences(x, list) == Cardinality({ i \in 1..Len(list) : list[i] = x })

GatesPassed ==
    /\ crm_read.deal # << >>
    /\ crm_read.deal[1].website_status = "Ready for Published"
    /\ crm_read.deal[1].duda_site_code # ""
    /\ crm_read.contact # << >>
    /\ crm_read.contact[1].industry_1 # << >>

OnlyCrmReads == gpt_calls = << >> /\ duda_calls = << >>

MaxWords == 3

\* package names as HubSpot writes them, and one that matches no tier
PackageDominate == Title(WordDominate)

PackageBoost == Upper(WordBoost)

PackageFiftyLocal == Title(WordFiftyLocal)

PackagePowerPages == Title(WordPowerPages)

PackageDiscover == Title(WordDiscover)

PackageTenLanding == Title(WordTenLanding)

PackageStarter == << "S", "t", "a", "r", "t", "e", "r" >>

Packages ==
    { PackageDominate, PackageBoost, PackageFiftyLocal, PackagePowerPages,
      PackageDiscover, PackageTenLanding, PackageStarter }

\* the deal type made of the package names, "Discover/Power Pages" for two
DealTypeOf(packages) == Join(packages, << "/" >>)

InitTiers ==
    /\ entry = "num_pages"
    /\ pc = "np_start"
    /\ fn_args \in ListsUpTo(Packages, MaxWords)
    /\ fn_results = << >>
    /\ requests = << >>
    /\ openai_api_key = "unset"
    /\ RunIdle

NP_NumPages ==
    /\ pc = "np_start"
    /\ fn_results' = << num_pages(DealTypeOf(fn_args)) >>
    /\ pc' = "np_done"
    /\ UNCHANGED fn_args
    /\ FnFrame

NextTiers == NP_NumPages

SpecTiers == InitTiers /\ [][NextTiers]_vars

AttrsReadAfterStartup ==
    { "DUDA_BATCH_SIZE", "API_CALL_DELAY", "CONTENT_TONE", "CONTENT_LENGTH",
      "OPENAI_MODEL" }

\* C30: every attribute the code reads from its Config after start-up is one
\* Config.__init__ defines, so that a run whose credentials are all set and that
\* has its locations reaches the batch stage instead of ending in the error of a
\* missing setting.
C30_ReadAttributesDefined ==
    (pc = "end" /\ missing = { } /\ locations # << >>) =>
        /\ \A name \in AttrsReadAfterStartup : HasAttr(name)
        /\ result # Unhandled("AttributeError: DUDA_BATCH_SIZE")
        /\ result # Response(500, "AttributeError: DUDA_BATCH_SIZE")

\* what does hold: the four other attributes are defined
OtherReadAttributesDefined ==
    \A name \in AttrsReadAfterStartup \ { "DUDA_BATCH_SIZE" } : HasAttr(name)

\* and every run that has its locations ends in the missing-setting error
RunsWithLocationsEndInAttributeError ==
    (pc = "end" /\ trigger # "none" /\ locations # << >>) =>
        result \in { Unhandled("AttributeError: DUDA_BATCH_SIZE"),
                     Response(500, "AttributeError: DUDA_BATCH_SIZE") }

=============================================================================
